---- MODULE Spec2Model ----
(***************************************************************************)
(* Model of the Bitcoin database sync manager                              *)
(* (src/Homework-3/bitcoin_sync_manager.py): the SQLite store kept by      *)
(* DatabaseManager, the structural validator, and the sync orchestrator    *)
(* with its pool of per-height worker units.                               *)
(*                                                                         *)
(* Conventions.  A Python dict is a record whose DOMAIN is the set of keys *)
(* present.  A nullable SQL column holds <<>> (NULL) or <<v>>.  The string *)
(* made of the character c repeated n times is Str(c, n), so len() is the  *)
(* len field.  A table is the set of its rows; the two child tables, whose *)
(* key is an AUTOINCREMENT id, are sequences (the id is the position).     *)
(* Columns that no modelled statement reads back are left out of the rows. *)
(***************************************************************************)
EXTENDS Integers, Sequences, FiniteSets, TLC

\* ------------------------------------------------------------------ bounds
\* Greatest block height carried by a payload handed to the store directly.
MaxHeight == 1
\* Number of insert_block_atomic calls made by direct callers of the store.
MaxCalls == 2
\* Number of handle_reorg calls.
MaxReorgs == 1
\* Height of the remote chain's tip.
MaxTip == 2
\* Number of sync_new_blocks passes.
MaxPasses == 2
\* Config.max_concurrent_blocks (5 in the source), scaled down.
max_concurrent_blocks == 2
\* max_blocks_per_sync (100 in the source), scaled down.
max_blocks_per_sync == 2
\* Greatest height of the chain that is stored before a reorganization.
MaxChainHeight == 5
\* Greatest nTx of a payload handed to the validator alone.
MaxTxs == 2
\* Number of check_for_reorgs calls.
MaxScans == 2
\* Config.reorg_safety_blocks (6 in the source), scaled down.
reorg_safety_blocks == 3

\* Number of start() calls, of stop() calls, of scheduler wake-ups with the
\* sync job due.
MaxStarts == 3
MaxStops == 2
MaxTicks == 2

\* Greatest number of rows a table of a database file holds before the
\* store is constructed on it; number of DatabaseManager constructions.
MaxRows == 1
MaxConstructions == 2

\* ------------------------------------------------------------------ values
None == <<>>
Some(v) == <<v>>

Str(c, n) == [ch |-> c, len |-> n]

\* dict.get(k): the value, or None (stored as NULL) when the key is absent
Get(d, k) == IF k \in DOMAIN d THEN Some(d[k]) ELSE None

Max(S) == CHOOSE x \in S : \A y \in S : y <= x
Min(S) == CHOOSE x \in S : \A y \in S : x <= y

SeqToSet(s) == {s[i] : i \in 1..Len(s)}

HashA == Str("a", 64)
HashB == Str("b", 64)
HashShort == Str("c", 63)
Txid1 == Str("1", 64)
Txid2 == Str("2", 64)

\* a coinbase transaction and a transaction spending its output
T1 == [txid |-> Txid1, vin |-> <<[coinbase |-> "00"]>>,
       vout |-> <<[value |-> 50, n |-> 0]>>]
T2 == [txid |-> Txid2, vin |-> <<[txid |-> Txid1, vout |-> 0]>>,
       vout |-> <<[value |-> 49, n |-> 0]>>]
\* a transaction dict without the txid key
TNoTxid == [vin |-> <<[coinbase |-> "00"]>>, vout |-> <<[value |-> 50, n |-> 0]>>]

\* a well-formed getblock result
Block(h, ht, txs) ==
    [hash |-> h, height |-> ht, time |-> 1, merkleroot |-> "m",
     nTx |-> Len(txs), tx |-> txs]

WellFormedPayloads ==
    {Block(h, ht, txs) : h \in {HashA, HashB}, ht \in 0..MaxHeight,
                         txs \in {<<T1>>, <<T2>>}}
    \cup {Block(HashA, 0, <<T1, T2>>)}

\* payloads with one defect each (or, for the missing nTx, an optional key left out)
DefectPayloads ==
    { [hash |-> HashA, height |-> 0, merkleroot |-> "m", nTx |-> 1, tx |-> <<T1>>],
      [hash |-> HashA, height |-> 0, time |-> 1, merkleroot |-> "m", nTx |-> 2, tx |-> <<T1>>],
      [hash |-> HashB, height |-> 1, time |-> 1, merkleroot |-> "m", tx |-> <<T2>>],
      [hash |-> HashShort, height |-> 0, time |-> 1, merkleroot |-> "m", nTx |-> 1, tx |-> <<T1>>],
      [hash |-> HashA, height |-> -1, time |-> 1, merkleroot |-> "m", nTx |-> 1, tx |-> <<T1>>],
      Block(HashB, 0, <<T1, TNoTxid>>),
      Block(HashB, 0, <<T2, T2>>) }

Payloads == WellFormedPayloads \cup DefectPayloads

NoPayload == [none |-> TRUE]

\* ------------------------------------------------------------ remote chain
\* the character a block of the remote chain repeats in its hash, by height
\* and by branch (1: the first history, 2: the history after a reorganization)
HashChar == << <<"0", "1", "2", "3", "4", "5", "6", "7">>,
               <<"8", "9", "a", "b", "c", "d", "e", "f">> >>

RemoteHash(height, branch) == Str(HashChar[branch][height + 1], 64)

\* the block the remote node serves for a hash: one coinbase transaction
RemoteBlock(height, hash) ==
    Block(hash, height,
          <<[txid |-> Str(hash.ch, 64), vin |-> <<[coinbase |-> "00"]>>,
             vout |-> <<[value |-> 50, n |-> 0]>>]>>)

\* what getblock may answer: the block, or (a remote glitch) the block with
\* a transaction count that does not match its transaction list, with a
\* truncated hash, or with a negative height
RemoteAnswers(height, hash) ==
    {RemoteBlock(height, hash),
     [RemoteBlock(height, hash) EXCEPT !.nTx = 2],
     [RemoteBlock(height, hash) EXCEPT !.hash = Str(hash.ch, 63)],
     [RemoteBlock(height, hash) EXCEPT !.height = -1]}

\* --------------------------------------------------------------- validator
Append2(errs, cond, e) == IF cond THEN Append(errs, e) ELSE errs

RECURSIVE MissingFields(_, _)
MissingFields(block_data, fields) ==
    IF fields = <<>> THEN <<>>
    ELSE (IF Head(fields) \in DOMAIN block_data THEN <<>>
          ELSE <<"Missing required field: " \o Head(fields)>>)
         \o MissingFields(block_data, Tail(fields))

\* a validator whose height check also rejects height 0
BlockStructureErrorsPositiveHeight(block_data) ==
    LET e0 == MissingFields(block_data, <<"hash", "height", "time", "merkleroot", "tx">>)
        e1 == Append2(e0, "hash" \in DOMAIN block_data /\ block_data.hash.len # 64,
                      "Invalid block hash format")
        e2 == Append2(e1, "height" \in DOMAIN block_data /\ block_data.height <= 0,
                      "Invalid block height")
        e3 == Append2(e2, /\ "tx" \in DOMAIN block_data
                          /\ "nTx" \in DOMAIN block_data
                          /\ Len(block_data.tx) # block_data.nTx,
                      "Transaction count mismatch")
    IN e3

\* a validator without the transaction-count check
BlockStructureErrorsNoCount(block_data) ==
    LET e0 == MissingFields(block_data, <<"hash", "height", "time", "merkleroot", "tx">>)
        e1 == Append2(e0, "hash" \in DOMAIN block_data /\ block_data.hash.len # 64,
                      "Invalid block hash format")
        e2 == Append2(e1, "height" \in DOMAIN block_data /\ block_data.height < 0,
                      "Invalid block height")
    IN e2

\* DataValidator.validate_block_structure: the list of errors, in order
BlockStructureErrors(block_data) ==
    LET e0 == MissingFields(block_data, <<"hash", "height", "time", "merkleroot", "tx">>)
        e1 == Append2(e0, "hash" \in DOMAIN block_data /\ block_data.hash.len # 64,
                      "Invalid block hash format")
        e2 == Append2(e1, "height" \in DOMAIN block_data /\ block_data.height < 0,
                      "Invalid block height")
        e3 == Append2(e2, /\ "tx" \in DOMAIN block_data
                          /\ "nTx" \in DOMAIN block_data
                          /\ Len(block_data.tx) # block_data.nTx,
                      "Transaction count mismatch")
    IN e3

\* a validator that accepts every payload
validate_nothing(block_data) == TRUE

\* DataValidator.validate_block_structure: valid when the list of errors is empty
validate_block_structure(block_data) == Len(BlockStructureErrors(block_data)) = 0

\* LLMDataTransformer.__init__: enabled only with the flag set and a key given
Enabled(config) == config.use_llm_validation /\ config.llm_api_key # ""

\* LLMDataTransformer._execute_deterministic_validation
_execute_deterministic_validation(data) ==
    /\ "hash" \in DOMAIN data => data.hash.len = 64
    /\ ("tx" \in DOMAIN data /\ "nTx" \in DOMAIN data) => Len(data.tx) = data.nTx
    /\ "tx" \in DOMAIN data =>
          \A i \in 1..Len(data.tx) :
              "txid" \in DOMAIN data.tx[i] /\ data.tx[i].txid.len = 64

\* LLMDataTransformer.validate_transformation.  (Its except branch, the
\* fallback to validate_block_structure, is taken only when the checks above
\* raise, which no payload made of dicts and lists makes them do.)
validate_transformation(config, original_data) ==
    IF ~Enabled(config) THEN TRUE
    ELSE _execute_deterministic_validation(original_data)

\* ------------------------------------------------------------------- store
EmptyDb ==
    [blocks |-> {}, transactions |-> {}, inputs |-> <<>>, outputs |-> <<>>,
     sync_status |-> None]

\* an INSERT OR REPLACE INTO blocks on a table whose height is not UNIQUE
_insert_block_keeps_height(d, block_data) ==
    LET row == [hash |-> block_data.hash, height |-> Get(block_data, "height"),
                nTx |-> Get(block_data, "nTx"), sync_status |-> "synced"]
    IN [d EXCEPT !.blocks = {b \in @ : b.hash # row.hash} \cup {row}]

\* INSERT OR REPLACE INTO blocks: hash is the PRIMARY KEY and height is UNIQUE,
\* so REPLACE first deletes every row that has the new row's hash or its height.
_insert_block(d, block_data) ==
    LET row == [hash |-> block_data.hash, height |-> Get(block_data, "height"),
                nTx |-> Get(block_data, "nTx"), sync_status |-> "synced"]
    IN [d EXCEPT !.blocks =
          {b \in @ : b.hash # row.hash /\ ~(b.height # None /\ b.height = row.height)}
          \cup {row}]

InputRow(txid, i, vin) ==
    [txid |-> txid, input_index |-> i, prev_txid |-> Get(vin, "txid"),
     vout |-> Get(vin, "vout"), coinbase |-> Get(vin, "coinbase")]

OutputRow(txid, vout) ==
    [txid |-> txid, value |-> Get(vout, "value"), n |-> Get(vout, "n")]

\* tx_data['txid'] raises KeyError when the key is absent
TxRaises(tx_data) == "txid" \notin DOMAIN tx_data

\* _insert_transaction: INSERT OR REPLACE the transaction row (txid is the
\* PRIMARY KEY), then plain INSERTs of one row per input and per output.
_insert_transaction(d, tx_data, block_hash) ==
    LET vin == IF "vin" \in DOMAIN tx_data THEN tx_data.vin ELSE <<>>
        vout == IF "vout" \in DOMAIN tx_data THEN tx_data.vout ELSE <<>>
    IN [d EXCEPT
          !.transactions = {t \in @ : t.txid # tx_data.txid}
              \cup {[txid |-> tx_data.txid, block_hash |-> block_hash,
                     sync_status |-> "synced"]},
          !.inputs = @ \o [i \in 1..Len(vin) |-> InputRow(tx_data.txid, i - 1, vin[i])],
          !.outputs = @ \o [i \in 1..Len(vout) |-> OutputRow(tx_data.txid, vout[i])]]

_update_sync_status(d, height, block_hash) ==
    [d EXCEPT !.sync_status =
        Some([last_sync_height |-> height, last_sync_hash |-> block_hash])]

_verify_block_consistency(d, block_data) ==
    /\ Cardinality({b \in d.blocks : b.hash = block_data.hash}) = 1
    /\ Cardinality({t \in d.transactions : t.block_hash = block_data.hash})
         = Len(block_data.tx)

\* a rollback that leaves the transaction's writes in place
RollbackKeepsWrites(base, work) == work

\* conn.rollback(): the database is as it was at BEGIN
Rollback(base, work) == base

\* a handle_reorg whose UPDATE lacks the "OR height >= (...)" clause
handle_reorg_hash_only(d, invalid_block_hash) ==
    LET blocks1 == {IF b.hash = invalid_block_hash
                    THEN [b EXCEPT !.sync_status = "orphaned"] ELSE b : b \in d.blocks}
        orphaned == {b.hash : b \in {x \in blocks1 : x.sync_status = "orphaned"}}
    IN [d EXCEPT !.blocks = blocks1,
                 !.transactions =
                    {IF t.block_hash \in orphaned
                     THEN [t EXCEPT !.sync_status = "orphaned"] ELSE t : t \in @}]

\* a handle_reorg that deletes the rows it should mark
handle_reorg_deleting(d, invalid_block_hash) ==
    LET hs == {b.height[1] : b \in {x \in d.blocks : x.hash = invalid_block_hash
                                                      /\ x.height # None}}
        hit(b) == \/ b.hash = invalid_block_hash
                  \/ (b.height # None /\ \E h \in hs : b.height[1] >= h)
        gone == {b.hash : b \in {x \in d.blocks : hit(x)}}
    IN [d EXCEPT !.blocks = {b \in @ : ~hit(b)},
                 !.transactions = {t \in @ : t.block_hash \notin gone}]

\* handle_reorg: the two UPDATEs of one exclusive transaction.  When no row has
\* the hash the subquery is NULL and "height >= NULL" selects nothing.
handle_reorg(d, invalid_block_hash) ==
    LET hs == {b.height[1] : b \in {x \in d.blocks : x.hash = invalid_block_hash
                                                      /\ x.height # None}}
        hit(b) == \/ b.hash = invalid_block_hash
                  \/ (b.height # None /\ \E h \in hs : b.height[1] >= h)
        blocks1 == {IF hit(b) THEN [b EXCEPT !.sync_status = "orphaned"] ELSE b
                      : b \in d.blocks}
        orphaned == {b.hash : b \in {x \in blocks1 : x.sync_status = "orphaned"}}
    IN [d EXCEPT !.blocks = blocks1,
                 !.transactions =
                    {IF t.block_hash \in orphaned
                     THEN [t EXCEPT !.sync_status = "orphaned"] ELSE t : t \in @}]

\* ------------------------------------------------------------------- state
VARIABLES
    db,        \* the committed database, as every other connection reads it
    txn,       \* the open exclusive write transaction: None or Some(record)
    wk,        \* per thread calling the store: its position and locals
    calls,     \* insert_block_atomic calls made so far
    reorgs,    \* handle_reorg calls made so far
    log,       \* the last two committed write transactions, oldest first
    chain,     \* the remote chain: the branch of the block at each height
    config,    \* the Config the manager was built with
    pass,      \* the sync_new_blocks pass: its range, queue and unit results
    scan,      \* the check_for_reorgs call: the rows left to verify, and its tally
    val,       \* a call of the validator: its argument and what it returned
    mgr,       \* the sync manager's life cycle: running flag, scheduled jobs, thread
    file       \* the database file DatabaseManager is constructed on: its tables

vars == <<db, txn, wk, calls, reorgs, log, chain, config, pass, scan, val, mgr, file>>
syncVars == <<chain, config, pass, scan, val, mgr, file>>

\* the threads that call the store's interface directly
Callers == {"c1", "c2"}

\* the threads of the pass's ThreadPoolExecutor
Workers == 1..max_concurrent_blocks

NoHash == Str("", 0)

IdleWorker ==
    [pc |-> "idle", p |-> NoPayload, i |-> 0, ok |-> FALSE, fresh |-> FALSE,
     others |-> {}, height |-> -1, hash |-> NoHash]

\* range: the heights the pass submitted; ok, failed: the heights whose unit
\* returned True, False; gap: the heights that failed in the pass before while
\* a greater height of that pass succeeded
IdlePass ==
    [state |-> "idle", no |-> 0, range |-> {}, queue |-> <<>>,
     ok |-> {}, failed |-> {}, gap |-> {}]

DefaultConfig == [use_llm_validation |-> TRUE, llm_api_key |-> ""]

\* LLM validation switched on or off, with and without an API key
Configs == [use_llm_validation : BOOLEAN, llm_api_key : {"", "sk"}]

\* no check_for_reorgs call is running.  rows: the (height, hash) rows fetched
\* and not yet verified, highest first; failed: the heights whose
\* get_block_hash raised; checked: the heights compared with the network; hit:
\* the heights for whose row handle_reorg was invoked
IdleScan ==
    [state |-> "idle", no |-> 0, rows |-> <<>>, failed |-> {}, checked |-> {},
     hit |-> {}]

\* no call of the validator has been made
NoVal == [state |-> "none"]

\* the five tables of _create_schema
SchemaTables ==
    {"blocks", "transactions", "transaction_inputs", "transaction_outputs",
     "sync_status"}

\* every table name a database file of the model may hold: the five, a table
\* of another application, and the sqlite_sequence table SQLite keeps for the
\* AUTOINCREMENT columns
AllTables == SchemaTables \cup {"other", "sqlite_sequence"}

\* the database file of a store whose DatabaseManager was constructed on a new
\* file.  tables: the names sqlite_master lists; rows: the number of rows per
\* table, rows0 that number before the first construction; opens: the
\* DatabaseManager constructions on the file so far
SchemaFile ==
    [state |-> "constructed", tables |-> SchemaTables \cup {"sqlite_sequence"},
     rows |-> [t \in AllTables |-> 0], rows0 |-> [t \in AllTables |-> 0],
     opens |-> 0]

\* BitcoinSyncManager after __init__: running is False and sync_thread is None.
\* jobs: the jobs registered with the process-wide `schedule` module; threads:
\* the scheduler threads alive; checks: the get_blockchain_info calls made by
\* start(); syncs: the sync_new_blocks calls made; starts, stops, ticks: the
\* calls so far; ops: the outcomes of the last two start()/stop() calls;
\* caller, sched: where the calling thread and the scheduler thread are, and
\* todo: the due jobs run_pending has still to run, for the specification that
\* follows the two threads step by step
NewManager ==
    [running |-> FALSE, sync_thread |-> FALSE, jobs |-> 0, threads |-> 0,
     checks |-> 0, syncs |-> 0, starts |-> 0, stops |-> 0, ticks |-> 0,
     ops |-> <<>>, caller |-> "idle", sched |-> "none", todo |-> 0]

\* a reader that sees the uncommitted writes of the open transaction
ReaderViewDirty == IF txn # None THEN txn[1].work ELSE db

\* what a reader (block_exists, get_latest_block_height, get_sync_status) sees:
\* each opens its own connection, which reads committed data only
ReaderView == db

\* a latest height read from the sync_status cursor instead of the blocks
LatestOfCursor(d) ==
    IF d.sync_status = None THEN None ELSE Some(d.sync_status[1].last_sync_height)

\* get_latest_block_height: SELECT MAX(height) FROM blocks WHERE sync_status = 'synced'
LatestOf(d) ==
    LET hs == {b.height[1] : b \in {x \in d.blocks : x.sync_status = "synced"
                                                      /\ x.height # None}}
    IN IF hs = {} THEN None ELSE Some(Max(hs))

get_latest_block_height == LatestOf(ReaderView)

\* a block_exists that counts the synced rows only
block_exists_synced(block_hash) ==
    \E b \in ReaderView.blocks : b.hash = block_hash /\ b.sync_status = "synced"


block_exists(block_hash) == \E b \in ReaderView.blocks : b.hash = block_hash

Init ==
    /\ db = EmptyDb
    /\ txn = None
    /\ wk = [w \in Callers |-> IdleWorker]
    /\ calls = 0
    /\ reorgs = 0
    /\ log = <<>>
    /\ chain = <<>>
    /\ config = DefaultConfig
    /\ pass = IdlePass
    /\ scan = IdleScan
    /\ val = NoVal
    /\ mgr = NewManager
    /\ file = SchemaFile

\* txids of the transaction dicts of a payload that carry one
TxidsOf(p) == {p.tx[i].txid : i \in {j \in 1..Len(p.tx) : "txid" \in DOMAIN p.tx[j]}}

\* the log after one more committed write
Logged(op) == IF Len(log) < 2 THEN Append(log, op) ELSE <<log[2], op>>

\* threads inside insert_block_atomic that wait for BEGIN EXCLUSIVE
Waiting == {w \in DOMAIN wk : wk[w].pc = "waiting"}

\* w returns from insert_block_atomic with result ok
Returned(w, ok) ==
    [wk[w] EXCEPT !.pc = "done", !.ok = ok, !.others = Waiting \ {w}]

\* a thread calls insert_block_atomic and reaches BEGIN EXCLUSIVE
Call(w) ==
    /\ wk[w].pc = "idle"
    /\ calls < MaxCalls
    /\ calls' = calls + 1
    /\ wk' = [wk EXCEPT ![w] = [IdleWorker EXCEPT !.pc = "waiting"]]
    /\ UNCHANGED <<db, txn, reorgs, log, syncVars>>

\* BEGIN EXCLUSIVE is granted to w, whose argument is p; p is validated and,
\* when valid, the block row is written.  An invalid payload raises: rollback,
\* return False.
BeginTxn(w, p) ==
    /\ txn = None
    /\ LET me == [wk[w] EXCEPT
                    !.p = p,
                    !.fresh = "tx" \in DOMAIN p /\ "hash" \in DOMAIN p /\
                              \A t \in db.transactions :
                                  t.block_hash = p.hash => t.txid \in TxidsOf(p)]
       IN IF validate_block_structure(p)
          THEN /\ txn' = Some([owner |-> w, base |-> db, work |-> _insert_block(db, p)])
               /\ wk' = [wk EXCEPT ![w] = [me EXCEPT !.pc = "tx", !.i = 1]]
               /\ db' = db
          ELSE /\ db' = Rollback(db, db)
               /\ txn' = None
               /\ wk' = [wk EXCEPT ![w] =
                    [me EXCEPT !.pc = "done", !.ok = FALSE, !.others = Waiting \ {w}]]
    /\ UNCHANGED <<calls, reorgs, log, syncVars>>

\* the argument of a direct call is any payload; it is fixed when the call is
\* made, and named here, where it is first read
Begin(w, p) ==
    /\ wk[w].pc = "waiting"
    /\ BeginTxn(w, p)

\* one iteration of "for tx in block_data.get('tx', [])"
InsertTx(w) ==
    /\ wk[w].pc = "tx"
    /\ txn # None /\ txn[1].owner = w
    /\ wk[w].i <= Len(wk[w].p.tx)
    /\ LET p == wk[w].p
           tx_data == p.tx[wk[w].i]
       IN IF TxRaises(tx_data)
          THEN /\ db' = Rollback(txn[1].base, txn[1].work)
               /\ txn' = None
               /\ wk' = [wk EXCEPT ![w] = Returned(w, FALSE)]
          ELSE /\ txn' = Some([txn[1] EXCEPT
                                 !.work = _insert_transaction(@, tx_data, p.hash)])
               /\ wk' = [wk EXCEPT ![w].i = @ + 1]
               /\ db' = db
    /\ UNCHANGED <<calls, reorgs, log, syncVars>>

\* after the last transaction: _update_sync_status, _verify_block_consistency,
\* then commit and return True, or raise: rollback and return False
Finish(w) ==
    /\ wk[w].pc = "tx"
    /\ txn # None /\ txn[1].owner = w
    /\ wk[w].i > Len(wk[w].p.tx)
    /\ LET p == wk[w].p
           work == _update_sync_status(txn[1].work, p.height, p.hash)
       IN IF _verify_block_consistency(work, p)
          THEN /\ db' = work
               /\ log' = Logged([op |-> "insert", p |-> p])
               /\ wk' = [wk EXCEPT ![w] = Returned(w, TRUE)]
          ELSE /\ db' = Rollback(txn[1].base, work)
               /\ wk' = [wk EXCEPT ![w] = Returned(w, FALSE)]
               /\ log' = log
    /\ txn' = None
    /\ UNCHANGED <<calls, reorgs, syncVars>>

\* the caller takes the result
Return(w) ==
    /\ wk[w].pc = "done"
    /\ wk' = [wk EXCEPT ![w] = IdleWorker]
    /\ UNCHANGED <<db, txn, calls, reorgs, log, syncVars>>

\* handle_reorg(invalid_block_hash), one exclusive transaction
HandleReorg(h) ==
    /\ txn = None
    /\ reorgs < MaxReorgs
    /\ reorgs' = reorgs + 1
    /\ db' = handle_reorg(db, h)
    /\ log' = Logged([op |-> "reorg", hash |-> h])
    /\ UNCHANGED <<txn, wk, calls, syncVars>>

\* ------------------------------------------------------- sync orchestrator
InitSync ==
    /\ db = EmptyDb
    /\ txn = None
    /\ wk = [w \in Workers |-> IdleWorker]
    /\ calls = 0
    /\ reorgs = 0
    /\ log = <<>>
    /\ chain = [h \in 1..(MaxTip + 1) |-> 1]
    /\ config \in Configs
    /\ pass = IdlePass
    /\ scan = IdleScan
    /\ val = NoVal
    /\ mgr = NewManager
    /\ file = SchemaFile

\* getblockchaininfo: the height of the remote tip
network_height == Len(chain) - 1

\* a pass without the batch ceiling: the range runs up to the remote tip
SyncStartUncapped ==
    /\ pass.state = "idle"
    /\ pass.no < MaxPasses
    /\ txn = None
    /\ LET db_height == get_latest_block_height
           start_height == IF db_height = None THEN 0 ELSE db_height[1] + 1
           end_height == network_height
       IN IF start_height > network_height
          THEN pass' = [pass EXCEPT !.no = @ + 1, !.range = {}, !.ok = {},
                                    !.failed = {}, !.gap = {}]
          ELSE pass' = [pass EXCEPT
                          !.state = "running", !.no = @ + 1,
                          !.range = start_height..end_height,
                          !.queue = [i \in 1..(end_height - start_height + 1)
                                        |-> start_height + i - 1],
                          !.ok = {}, !.failed = {}]
    /\ UNCHANGED <<db, txn, wk, calls, reorgs, log, chain, config, scan, val, mgr, file>>

\* a pass that ignores the store's height and starts from the genesis block
SyncStartFromGenesis ==
    /\ pass.state = "idle"
    /\ pass.no < MaxPasses
    /\ txn = None
    /\ LET start_height == 0
           end_height == Min({start_height + max_blocks_per_sync - 1, network_height})
       IN pass' = [pass EXCEPT
                      !.state = "running", !.no = @ + 1,
                      !.range = start_height..end_height,
                      !.queue = [i \in 1..(end_height - start_height + 1)
                                    |-> start_height + i - 1],
                      !.ok = {}, !.failed = {}]
    /\ UNCHANGED <<db, txn, wk, calls, reorgs, log, chain, config, scan, val, mgr, file>>

\* sync_new_blocks up to the submission of the units: the range is read from
\* the remote tip and the greatest synced height; an up-to-date store returns
SyncStart ==
    /\ pass.state = "idle"
    /\ pass.no < MaxPasses
    /\ txn = None
    /\ LET db_height == get_latest_block_height
           start_height == IF db_height = None THEN 0 ELSE db_height[1] + 1
           end_height == Min({start_height + max_blocks_per_sync - 1, network_height})
       IN IF start_height > network_height
          THEN pass' = [pass EXCEPT !.no = @ + 1, !.range = {}, !.ok = {},
                                    !.failed = {}, !.gap = {}]
          ELSE pass' = [pass EXCEPT
                          !.state = "running", !.no = @ + 1,
                          !.range = start_height..end_height,
                          !.queue = [i \in 1..(end_height - start_height + 1)
                                        |-> start_height + i - 1],
                          !.ok = {}, !.failed = {}]
    /\ UNCHANGED <<db, txn, wk, calls, reorgs, log, chain, config, scan, val, mgr, file>>

\* getblockchaininfo raises: the pass logs the error and ends
SyncStartFails ==
    /\ pass.state = "idle"
    /\ pass.no < MaxPasses
    /\ pass' = [pass EXCEPT !.no = @ + 1, !.range = {}, !.ok = {}, !.failed = {},
                             !.gap = {}]
    /\ UNCHANGED <<db, txn, wk, calls, reorgs, log, chain, config, scan, val, mgr, file>>

\* a free thread of the pool takes the next submitted unit
UnitStart(w) ==
    /\ pass.state = "running"
    /\ wk[w].pc = "idle"
    /\ pass.queue # <<>>
    /\ wk' = [wk EXCEPT ![w] = [IdleWorker EXCEPT !.pc = "hash", !.height = Head(pass.queue)]]
    /\ pass' = [pass EXCEPT !.queue = Tail(@)]
    /\ UNCHANGED <<db, txn, calls, reorgs, log, chain, config, scan, val, mgr, file>>

\* the unit returns `ok` before it reaches the store
UnitReturns(w, ok) == [wk[w] EXCEPT !.pc = "done", !.ok = ok]

\* _sync_single_block: get_block_hash(height), which may raise
UnitGetHash(w) ==
    /\ wk[w].pc = "hash"
    /\ \E rpc_ok \in BOOLEAN :
       IF rpc_ok /\ wk[w].height <= network_height
       THEN wk' = [wk EXCEPT ![w] =
                [@ EXCEPT !.pc = "exists",
                          !.hash = RemoteHash(wk[w].height, chain[wk[w].height + 1])]]
       ELSE wk' = [wk EXCEPT ![w] = UnitReturns(w, FALSE)]
    /\ UNCHANGED <<db, txn, calls, reorgs, log, syncVars>>

\* _sync_single_block: block_exists(block_hash), a read on its own connection
UnitBlockExists(w) ==
    /\ wk[w].pc = "exists"
    /\ txn = None
    /\ IF block_exists(wk[w].hash)
       THEN wk' = [wk EXCEPT ![w] = UnitReturns(w, TRUE)]
       ELSE wk' = [wk EXCEPT ![w].pc = "getblock"]
    /\ UNCHANGED <<db, txn, calls, reorgs, log, syncVars>>

\* _sync_single_block: get_block, which may raise, then validate_transformation
\* and, when that passes, the call of insert_block_atomic
UnitGetBlock(w) ==
    /\ wk[w].pc = "getblock"
    /\ \E rpc_ok \in BOOLEAN, block_data \in RemoteAnswers(wk[w].height, wk[w].hash) :
       IF ~rpc_ok
       THEN wk' = [wk EXCEPT ![w] = UnitReturns(w, FALSE)]
       ELSE IF ~validate_transformation(config, block_data)
       THEN wk' = [wk EXCEPT ![w] = UnitReturns(w, FALSE)]
       ELSE wk' = [wk EXCEPT ![w] = [@ EXCEPT !.pc = "waiting", !.p = block_data]]
    /\ UNCHANGED <<db, txn, calls, reorgs, log, syncVars>>

\* insert_block_atomic(block_data) of a unit is granted BEGIN EXCLUSIVE
UnitBegin(w) ==
    /\ wk[w].pc = "waiting"
    /\ BeginTxn(w, wk[w].p)

\* a pass in which a failed unit cancels the units not yet started
UnitDoneCancels(w) ==
    /\ wk[w].pc = "done"
    /\ pass' = IF wk[w].ok THEN [pass EXCEPT !.ok = @ \cup {wk[w].height}]
                           ELSE [pass EXCEPT !.failed = @ \cup {wk[w].height},
                                             !.queue = <<>>]
    /\ wk' = [wk EXCEPT ![w] = IdleWorker]
    /\ UNCHANGED <<db, txn, calls, reorgs, log, chain, config, scan, val, mgr, file>>

\* the unit's future completes with its result
UnitDone(w) ==
    /\ wk[w].pc = "done"
    /\ pass' = IF wk[w].ok THEN [pass EXCEPT !.ok = @ \cup {wk[w].height}]
                           ELSE [pass EXCEPT !.failed = @ \cup {wk[w].height}]
    /\ wk' = [wk EXCEPT ![w] = IdleWorker]
    /\ UNCHANGED <<db, txn, calls, reorgs, log, chain, config, scan, val, mgr, file>>

\* every future has completed: the pass logs the tally and returns
SyncFinish ==
    /\ pass.state = "running"
    /\ pass.ok \cup pass.failed = pass.range
    /\ pass' = [pass EXCEPT
                   !.state = "idle",
                   !.gap = {h \in pass.failed : \E h2 \in pass.ok : h2 > h}]
    /\ UNCHANGED <<db, txn, wk, calls, reorgs, log, chain, config, scan, val, mgr, file>>

NextSync ==
    \/ SyncStart
    \/ SyncStartFails
    \/ \E w \in Workers : UnitStart(w)
    \/ \E w \in Workers : UnitGetHash(w)
    \/ \E w \in Workers : UnitBlockExists(w)
    \/ \E w \in Workers : UnitGetBlock(w)
    \/ \E w \in Workers : UnitBegin(w)
    \/ \E w \in Workers : InsertTx(w)
    \/ \E w \in Workers : Finish(w)
    \/ \E w \in Workers : UnitDone(w)
    \/ SyncFinish

SpecSync == InitSync /\ [][NextSync]_vars

Next ==
    \/ \E w \in Callers : Call(w)
    \/ \E w \in Callers, p \in Payloads : Begin(w, p)
    \/ \E w \in Callers : InsertTx(w)
    \/ \E w \in Callers : Finish(w)
    \/ \E w \in Callers : Return(w)
    \/ \E h \in {HashA, HashB} : HandleReorg(h)

Spec == Init /\ [][Next]_vars

\* ------------------------------------------- storing a chain, then a reorg
\* the blocks of the remote chain's first history
ChainPayloads == {RemoteBlock(h, RemoteHash(h, 1)) : h \in 0..MaxChainHeight}

\* the lowest block of the chain that the store does not hold yet
NextOfChain(p) ==
    /\ p \in ChainPayloads
    /\ ~block_exists(p.hash)
    /\ \A q \in ChainPayloads : q.height < p.height => block_exists(q.hash)

\* a caller stores the chain in height order, one block per call
ChainCall(w) ==
    /\ wk[w].pc = "idle"
    /\ txn = None
    /\ \E p \in ChainPayloads : NextOfChain(p)
    /\ wk' = [wk EXCEPT ![w] = [IdleWorker EXCEPT !.pc = "waiting"]]
    /\ UNCHANGED <<db, txn, calls, reorgs, log, syncVars>>

ChainBegin(w, p) ==
    /\ wk[w].pc = "waiting"
    /\ txn = None
    /\ NextOfChain(p)
    /\ BeginTxn(w, p)

NextReorg ==
    \/ ChainCall("c1")
    \/ \E p \in ChainPayloads : ChainBegin("c1", p)
    \/ InsertTx("c1")
    \/ Finish("c1")
    \/ Return("c1")
    \/ \E h \in {b.hash : b \in db.blocks} : HandleReorg(h)

SpecReorg == Init /\ [][NextReorg]_vars

\* ------------------------------------------------------- check_for_reorgs
InitCheck ==
    /\ db = EmptyDb
    /\ txn = None
    /\ wk = [w \in Callers |-> IdleWorker]
    /\ calls = 0
    /\ reorgs = 0
    /\ log = <<>>
    /\ chain = [h \in 1..(MaxChainHeight + 1) |-> 1]
    /\ config = DefaultConfig
    /\ pass = IdlePass
    /\ scan = IdleScan
    /\ val = NoVal
    /\ mgr = NewManager
    /\ file = SchemaFile

\* the remote node reorganizes: the blocks from height h up are replaced
RemoteReorg(h) ==
    /\ \A i \in DOMAIN chain : chain[i] = 1
    /\ chain' = [i \in DOMAIN chain |-> IF i >= h + 1 THEN 2 ELSE 1]
    /\ UNCHANGED <<db, txn, wk, calls, reorgs, log, config, pass, scan, val, mgr, file>>

\* the rows "SELECT height, hash FROM blocks WHERE height > ? AND sync_status =
\* 'synced' ORDER BY height DESC" returns
RECURSIVE RowsDesc(_)
RowsDesc(bs) ==
    IF bs = {} THEN <<>>
    ELSE LET top == CHOOSE b \in bs : \A c \in bs : c.height[1] <= b.height[1]
         IN <<[height |-> top.height[1], hash |-> top.hash]>> \o RowsDesc(bs \ {top})

\* check_for_reorgs up to its loop: an empty store returns; otherwise the
\* synced rows of the last check_depth heights are fetched
CheckStart ==
    /\ scan.state = "idle"
    /\ scan.no < MaxScans
    /\ txn = None
    /\ \A w \in DOMAIN wk : wk[w].pc = "idle"
    /\ LET db_height == get_latest_block_height IN
       IF db_height = None
       THEN scan' = [IdleScan EXCEPT !.no = scan.no + 1]
       ELSE LET check_depth == Min({reorg_safety_blocks, db_height[1]})
                db_blocks == {b \in ReaderView.blocks :
                                /\ b.sync_status = "synced"
                                /\ b.height # None
                                /\ b.height[1] > db_height[1] - check_depth}
            IN scan' = [state |-> "running", no |-> scan.no + 1,
                        rows |-> RowsDesc(db_blocks), failed |-> {}, checked |-> {},
                        hit |-> {}]
    /\ UNCHANGED <<db, txn, wk, calls, reorgs, log, chain, config, pass, val, mgr, file>>

\* a get_block_hash that raises ends the loop as a mismatch would
ScanAbortOnError(s) ==
    [s EXCEPT !.rows = <<>>, !.failed = @ \cup {Head(s.rows).height}]

\* the except clause inside the loop: the error is logged and the loop goes on
OnRpcError(s) ==
    [s EXCEPT !.rows = Tail(@), !.failed = @ \cup {Head(s.rows).height}]

\* a loop that goes on to the next row after handle_reorg
OnMismatchContinue(s) ==
    [s EXCEPT !.rows = Tail(@), !.checked = @ \cup {Head(s.rows).height},
              !.hit = @ \cup {Head(s.rows).height}]

\* the hashes differ: after handle_reorg(db_hash) the `break` leaves the loop
\* with the rows below unread
OnMismatch(s) ==
    [s EXCEPT !.rows = <<>>, !.checked = @ \cup {Head(s.rows).height},
              !.hit = @ \cup {Head(s.rows).height}]

\* one iteration of "for height, db_hash in db_blocks": get_block_hash(height),
\* which may raise, and on a differing hash handle_reorg(db_hash) and break
CheckHeight ==
    /\ scan.state = "running"
    /\ scan.rows # <<>>
    /\ LET height == Head(scan.rows).height
           db_hash == Head(scan.rows).hash
       IN \E rpc_ok \in BOOLEAN :
          IF ~rpc_ok \/ height > network_height
          THEN /\ scan' = OnRpcError(scan)
               /\ UNCHANGED <<db, reorgs, log, file>>
          ELSE IF RemoteHash(height, chain[height + 1]) # db_hash
          THEN /\ db' = handle_reorg(db, db_hash)
               /\ reorgs' = reorgs + 1
               /\ log' = Logged([op |-> "reorg", hash |-> db_hash])
               /\ scan' = OnMismatch(scan)
          ELSE /\ scan' = [scan EXCEPT !.rows = Tail(@), !.checked = @ \cup {height}]
               /\ UNCHANGED <<db, reorgs, log, file>>
    /\ UNCHANGED <<txn, wk, calls, chain, config, pass, val, mgr, file>>

\* the loop is over: check_for_reorgs returns
CheckEnd ==
    /\ scan.state = "running"
    /\ scan.rows = <<>>
    /\ scan' = [scan EXCEPT !.state = "idle"]
    /\ UNCHANGED <<db, txn, wk, calls, reorgs, log, chain, config, pass, val, mgr, file>>

\* the chain is stored in height order; the remote node may reorganize once;
\* check_for_reorgs runs while nothing else writes the store
NextCheck ==
    \/ scan.state = "idle" /\ ChainCall("c1")
    \/ \E p \in ChainPayloads : ChainBegin("c1", p)
    \/ InsertTx("c1")
    \/ Finish("c1")
    \/ Return("c1")
    \/ \E h \in 0..MaxChainHeight : RemoteReorg(h)
    \/ CheckStart
    \/ CheckHeight
    \/ CheckEnd

SpecCheck == InitCheck /\ [][NextCheck]_vars

\* ------------------------------------ main's loop: passes and reorg checks
\* a pool of one thread, and a remote chain one block shorter, so that the
\* store catches up with the tip within the passes
InitResync ==
    /\ db = EmptyDb
    /\ txn = None
    /\ wk = [w \in {1} |-> IdleWorker]
    /\ calls = 0
    /\ reorgs = 0
    /\ log = <<>>
    /\ chain = [h \in 1..MaxTip |-> 1]
    /\ config = DefaultConfig
    /\ pass = IdlePass
    /\ scan = IdleScan
    /\ val = NoVal
    /\ mgr = NewManager
    /\ file = SchemaFile

\* the remote node returns to its first history
RemoteRevert ==
    /\ \E i \in DOMAIN chain : chain[i] # 1
    /\ chain' = [i \in DOMAIN chain |-> 1]
    /\ UNCHANGED <<db, txn, wk, calls, reorgs, log, config, pass, scan, val, mgr, file>>

\* main calls sync_new_blocks and check_for_reorgs in turn, on one thread;
\* the remote node reorganizes and returns at any moment
NextResync ==
    \/ scan.state = "idle" /\ SyncStart
    \/ \E w \in DOMAIN wk : UnitStart(w)
    \/ \E w \in DOMAIN wk : UnitGetHash(w)
    \/ \E w \in DOMAIN wk : UnitBlockExists(w)
    \/ \E w \in DOMAIN wk : UnitGetBlock(w)
    \/ \E w \in DOMAIN wk : UnitBegin(w)
    \/ \E w \in DOMAIN wk : InsertTx(w)
    \/ \E w \in DOMAIN wk : Finish(w)
    \/ \E w \in DOMAIN wk : UnitDone(w)
    \/ SyncFinish
    \/ \E h \in 0..network_height : RemoteReorg(h)
    \/ RemoteRevert
    \/ pass.state = "idle" /\ CheckStart
    \/ CheckHeight
    \/ CheckEnd

SpecResync == InitResync /\ [][NextResync]_vars


\* ------------------------------------------------- the genesis scenarios
TxidB == Str("b", 64)

\* the coinbase transaction of the genesis block
TGenesis == [txid |-> TxidB, vin |-> <<[coinbase |-> "00"]>>,
             vout |-> <<[value |-> 50, n |-> 0]>>]

\* a genesis payload that carries hash, height, nTx and tx only
GenesisScenario == [hash |-> HashA, height |-> 0, nTx |-> 1, tx |-> <<TGenesis>>]

\* the genesis payload as getblock returns it, with time and merkleroot
GenesisBlock == Block(HashA, 0, <<TGenesis>>)

ScenarioPayloads ==
    {GenesisScenario, GenesisBlock, [GenesisBlock EXCEPT !.nTx = 2],
     Block(HashB, 1, <<T2>>)}

\* callers hand the scenario payloads to the store
NextScenario ==
    \/ \E w \in Callers : Call(w)
    \/ \E w \in Callers, p \in ScenarioPayloads : Begin(w, p)
    \/ \E w \in Callers : InsertTx(w)
    \/ \E w \in Callers : Finish(w)
    \/ \E w \in Callers : Return(w)

SpecScenario == Init /\ [][NextScenario]_vars


\* ------------------------------------------------- calls of the validator
\* the dict d without the keys outside S
Restrict(d, S) == [k \in S |-> d[k]]

\* a transaction with two coinbase inputs, and a second coinbase transaction
TTwoCoinbase == [txid |-> Txid1, vin |-> <<[coinbase |-> "00"], [coinbase |-> "01"]>>,
                 vout |-> <<[value |-> 50, n |-> 0]>>]
TCoinbase2 == [txid |-> Txid2, vin |-> <<[coinbase |-> "01"]>>,
               vout |-> <<[value |-> 50, n |-> 0]>>]

ValidatorTxLists ==
    {<<>>, <<T1>>, <<T2>>, <<T1, T2>>, <<T1, TCoinbase2>>, <<TTwoCoinbase>>}

\* payloads of every combination of present and absent keys
ValidatorInputs ==
    {Restrict(full, S) :
        full \in [hash : {HashA, HashShort, Str("g", 64)}, height : {-1, 0, MaxHeight},
                  time : {1},
                  merkleroot : {"m"}, nTx : 0..MaxTxs, tx : ValidatorTxLists],
        S \in SUBSET {"hash", "height", "time", "merkleroot", "nTx", "tx"}}

InitValidator ==
    /\ db = EmptyDb
    /\ txn = None
    /\ wk = [w \in Callers |-> IdleWorker]
    /\ calls = 0
    /\ reorgs = 0
    /\ log = <<>>
    /\ chain = <<>>
    /\ config = DefaultConfig
    /\ pass = IdlePass
    /\ scan = IdleScan
    /\ val \in {[state |-> "called", block_data |-> p] : p \in ValidatorInputs}
    /\ mgr = NewManager
    /\ file = SchemaFile

\* DataValidator.validate_block_structure(block_data) returns (is_valid, errors)
Validate ==
    /\ val.state = "called"
    /\ val' = [state |-> "returned", block_data |-> val.block_data,
               is_valid |-> validate_block_structure(val.block_data),
               errors |-> BlockStructureErrors(val.block_data)]
    /\ UNCHANGED <<db, txn, wk, calls, reorgs, log, chain, config, pass, scan, mgr, file>>

NextValidator == Validate

SpecValidator == InitValidator /\ [][NextValidator]_vars

\* ------------------------------------- the advisory validator (llm_validator.py)
Digits == {"0", "1", "2", "3", "4", "5", "6", "7", "8", "9"}
Letters ==
    {"A", "B", "C", "D", "E", "F",
     "a", "b", "c", "d", "e", "f", "g", "h", "i", "j", "k", "l", "m",
     "n", "o", "p", "q", "r", "s", "t", "u", "v", "w", "x", "y", "z"}
HexDigits == Digits \cup {"a", "b", "c", "d", "e", "f", "A", "B", "C", "D", "E", "F"}

\* dict.get(k, default)
GetOr(d, k, default) == IF k \in DOMAIN d THEN d[k] ELSE default

\* the number of elements of a list of booleans that are TRUE
RECURSIVE CountTrue(_)
CountTrue(bs) ==
    IF bs = <<>> THEN 0
    ELSE (IF Head(bs) THEN 1 ELSE 0) + CountTrue(Tail(bs))

\* a rational number, for the float of the `difficulty` key
Rat(n, d) == [num |-> n, den |-> d]

\* int(time.time()) at the call, in seconds
Now == 10

\* _get_default_validation_strategy and _generate_llm_validation_strategy: the
\* keys of the dict (every value is True)
DefaultStrategy ==
    {"basic_hash_validation", "transaction_count_validation",
     "structure_validation", "required_fields_validation"}
LlmStrategy ==
    {"comprehensive_hash_validation", "transaction_structure_validation",
     "fee_calculation_validation", "coinbase_validation", "timestamp_validation",
     "difficulty_validation", "merkle_root_validation",
     "input_output_balance_validation", "block_size_validation",
     "sequence_validation"}

\* LLMDataValidator._validate_hash_format: a str of 64 characters that
\* int(_, 16) accepts.  hash_str is None or Some(string)
_validate_hash_format(hash_str) ==
    /\ hash_str # None
    /\ hash_str[1].len = 64
    /\ hash_str[1].ch \in HexDigits

\* LLMDataValidator._validate_transaction_structure
_validate_transaction_structure(tx) ==
    /\ {"txid", "vin", "vout"} \subseteq DOMAIN tx
    /\ _validate_hash_format(Some(tx.txid))
    /\ Len(tx.vin) # 0
    /\ Len(tx.vout) # 0

\* `first_tx.get('vin', [{}])[0]` raises IndexError: the first transaction
\* carries an empty vin list
CoinbaseCheckRaises(transactions) ==
    /\ transactions # <<>>
    /\ "vin" \in DOMAIN transactions[1]
    /\ transactions[1].vin = <<>>

\* LLMDataValidator._validate_coinbase_transaction, where it does not raise
_validate_coinbase_transaction(transactions) ==
    /\ transactions # <<>>
    /\ "vin" \in DOMAIN transactions[1]
    /\ "coinbase" \in DOMAIN transactions[1].vin[1]
    /\ \A i \in 2..Len(transactions) :
          \A j \in 1..Len(GetOr(transactions[i], "vin", <<>>)) :
              "coinbase" \notin DOMAIN transactions[i].vin[j]

\* LLMDataValidator._execute_deterministic_validation: the outcome of each
\* check made, in order.  Every check adds one to checks_total, a passing one
\* adds one to checks_passed and a failing one appends one error
DeterministicChecks(block_data, strategy) ==
    LET txs == GetOr(block_data, "tx", <<>>)
        c1 == IF {"comprehensive_hash_validation", "basic_hash_validation"}
                     \cap strategy # {}
              THEN <<_validate_hash_format(Get(block_data, "hash"))>>
              ELSE <<>>
        c2 == [i \in 1..5 |->
                  <<"hash", "height", "time", "merkleroot", "nTx">>[i]
                      \in DOMAIN block_data]
        c3 == IF "transaction_count_validation" \in strategy
              THEN <<GetOr(block_data, "nTx", 0) = Len(txs)>>
              ELSE <<>>
        c4 == <<"height" \in DOMAIN block_data /\ block_data.height >= 0>>
        c5 == IF "transaction_structure_validation" \in strategy
              THEN [i \in 1..Len(txs) |-> _validate_transaction_structure(txs[i])]
              ELSE <<>>
        c6 == IF "coinbase_validation" \in strategy
              THEN <<_validate_coinbase_transaction(txs)>>
              ELSE <<>>
    IN c1 \o c2 \o c3 \o c4 \o c5 \o c6

\* the distinct bytes of bytes.fromhex(hash) for a hash of one repeated
\* character; 0 where the code leaves the score at 0.0.  (32 bytes hold at
\* most 32 distinct values, so no hash scores above 32/256.)
UniqueBytes(block_hash) ==
    IF block_hash.len = 64 /\ block_hash.ch \in HexDigits THEN 1 ELSE 0

\* LLMDataValidator._execute_mathematical_verification with
\* _combine_validation_results' math_checks: hash_entropy_score > 0.5,
\* timestamp_validity, merkle_consistency, difficulty_consistency
MathChecks(block_data) ==
    LET block_hash == GetOr(block_data, "hash", Str("", 0))
        timestamp == GetOr(block_data, "time", 0)
        merkle_root == GetOr(block_data, "merkleroot", Str("", 0))
        difficulty == GetOr(block_data, "difficulty", Rat(0, 1))
    IN << 2 * UniqueBytes(block_hash) > 256,
          0 < timestamp /\ timestamp <= Now + 7200,
          merkle_root.len = 64 /\ merkle_root.ch \in Digits \cup Letters,
          0 < difficulty.num /\ difficulty.num < difficulty.den >>

\* LLMDataValidator._execute_blockchain_rules_verification: block_size_valid,
\* transaction_rules_valid, fee_rules_valid
RulesChecks(block_data) ==
    LET transactions == GetOr(block_data, "tx", <<>>)
        block_size == GetOr(block_data, "size", 0)
        NonEmpty(tx, k) == k \in DOMAIN tx /\ tx[k] # <<>>
    IN << 0 < block_size /\ block_size < 10000000,
          \A i \in 1..Len(transactions) :
              /\ NonEmpty(transactions[i], "vin")
              /\ NonEmpty(transactions[i], "vout")
              /\ IF i = 1
                 THEN "coinbase" \in DOMAIN transactions[i].vin[1]
                 ELSE \A j \in 1..Len(transactions[i].vin) :
                          "coinbase" \notin DOMAIN transactions[i].vin[j],
          \A i \in 1..Len(transactions) :
              "fee" \in DOMAIN transactions[i] => transactions[i].fee >= 0 >>

\* LLMDataValidator._combine_validation_results: is_valid.  The rates are
\* compared as fractions: passed/total >= 0.95, math/4 >= 0.75,
\* rules/3 >= 0.75 and 0.5 passed/total + 0.3 math/4 + 0.2 rules/3 >= 0.9
_combine_validation_results(checks, math_checks, rules_checks) ==
    LET passed == CountTrue(checks)
        total == Len(checks)
        math == CountTrue(math_checks)
        rules == CountTrue(rules_checks)
    IN /\ total > 0
       /\ 100 * passed >= 95 * total
       /\ passed = total
       /\ 100 * math >= 75 * Len(math_checks)
       /\ 100 * rules >= 75 * Len(rules_checks)
       /\ 60 * passed + 9 * math * total + 8 * rules * total >= 108 * total

\* LLMDataValidator._fallback_validation: is_valid
_fallback_validation(block_data) ==
    /\ {"hash", "height", "merkleroot", "nTx", "tx"} \subseteq DOMAIN block_data
    /\ _validate_hash_format(Get(block_data, "hash"))

\* LLMDataValidator.validate_block_transformation: is_valid.  The only step
\* that raises on a payload of dicts, lists, strings and numbers is the
\* coinbase check of the strategy chosen with a key
validate_block_transformation(llm_enabled, original_block) ==
    LET validation_strategy == IF llm_enabled THEN LlmStrategy ELSE DefaultStrategy
    IN IF /\ "coinbase_validation" \in validation_strategy
          /\ CoinbaseCheckRaises(GetOr(original_block, "tx", <<>>))
       THEN _fallback_validation(original_block)
       ELSE _combine_validation_results(
                DeterministicChecks(original_block, validation_strategy),
                MathChecks(original_block), RulesChecks(original_block))

\* validate_block_with_llm_assistance(block_data, api_key): api_key is "" for
\* None; LLMDataValidator.__init__ sets llm_enabled = bool(api_key)
validate_block_with_llm_assistance(block_data, api_key) ==
    validate_block_transformation(api_key # "", block_data)

\* a spending transaction with a negative fee, a transaction with no inputs
TNegFee == [txid |-> Txid2, vin |-> <<[txid |-> Txid1, vout |-> 0]>>,
            vout |-> <<[value |-> 49, n |-> 0]>>, fee |-> -1]
TEmptyVin == [txid |-> Txid1, vin |-> <<>>, vout |-> <<[value |-> 50, n |-> 0]>>]

HashG == Str("g", 64)
MerkleD == Str("d", 64)

AdvisoryTxLists ==
    {<<>>, <<T1>>, <<T2>>, <<T1, T2>>, <<T1, TCoinbase2>>, <<T1, TNegFee>>,
     <<TEmptyVin>>}

\* payloads of every combination of present and absent keys, with the keys
\* `size` and `difficulty` of a getblock result
AdvisoryInputs ==
    {Restrict(full, S) :
        full \in [hash : {HashA, HashShort, HashG}, height : {-1, 0},
                  time : {1, Now + 7201}, merkleroot : {MerkleD, Str("d", 1)},
                  nTx : 0..MaxTxs, tx : AdvisoryTxLists, size : {285},
                  difficulty : {Rat(1, 4), Rat(1, 1)}],
        S \in SUBSET {"hash", "height", "time", "merkleroot", "nTx", "tx",
                      "size", "difficulty"}}

InitAdvisory ==
    /\ db = EmptyDb
    /\ txn = None
    /\ wk = [w \in Callers |-> IdleWorker]
    /\ calls = 0
    /\ reorgs = 0
    /\ log = <<>>
    /\ chain = <<>>
    /\ config = DefaultConfig
    /\ pass = IdlePass
    /\ scan = IdleScan
    /\ val \in {[state |-> "asked", block_data |-> p, api_key |-> k] :
                   p \in AdvisoryInputs, k \in {"", "sk"}}
    /\ mgr = NewManager
    /\ file = SchemaFile

\* a call validate_block_with_llm_assistance(block_data, api_key)
ValidateWithLlm ==
    /\ val.state = "asked"
    /\ val' = [state |-> "advised", block_data |-> val.block_data,
               api_key |-> val.api_key,
               is_valid |-> validate_block_with_llm_assistance(val.block_data,
                                                               val.api_key)]
    /\ UNCHANGED <<db, txn, wk, calls, reorgs, log, chain, config, pass, scan, mgr, file>>

NextAdvisory == ValidateWithLlm

SpecAdvisory == InitAdvisory /\ [][NextAdvisory]_vars


\* ----------------------------------------- payloads with malformed transactions
\* transactions without the vout key, with a txid of 64 non-hexadecimal
\* characters, with an input that is both a coinbase and a reference, and with
\* an input that is neither
TNoVout == [txid |-> Txid1, vin |-> <<[coinbase |-> "00"]>>]
TBadTxid == [txid |-> HashG, vin |-> <<[coinbase |-> "00"]>>,
             vout |-> <<[value |-> 50, n |-> 0]>>]
TBothKinds == [txid |-> Txid2, vin |-> <<[coinbase |-> "00", txid |-> Txid1, vout |-> 0]>>,
               vout |-> <<[value |-> 49, n |-> 0]>>]
TNoKind == [txid |-> Txid2, vin |-> <<[sequence |-> 1]>>,
            vout |-> <<[value |-> 49, n |-> 0]>>]

MalformedPayloads ==
    {Block(HashA, 0, <<T1>>), Block(HashA, 0, <<TEmptyVin>>),
     Block(HashA, 0, <<TNoVout>>), Block(HashA, 0, <<TNoTxid>>),
     Block(HashB, 1, <<TBadTxid>>), Block(HashB, 1, <<TBothKinds>>),
     Block(HashB, 1, <<TNoKind>>)}

\* callers hand these payloads to the store
NextMalformed ==
    \/ \E w \in Callers : Call(w)
    \/ \E w \in Callers, p \in MalformedPayloads : Begin(w, p)
    \/ \E w \in Callers : InsertTx(w)
    \/ \E w \in Callers : Finish(w)
    \/ \E w \in Callers : Return(w)

SpecMalformed == Init /\ [][NextMalformed]_vars

\* --------------------------------- the validator on any decoded payload
\* the Python type of the value a decoded payload holds under `tx`: a list,
\* None or a number.  (The value itself is block_data.tx, which is read only
\* where the type is "list".)
TxTypes == {"list", "NoneType", "int"}

\* len(block_data['tx']) raises TypeError: the count check is reached (both
\* keys present) and the value under `tx` has no len()
StructureCheckRaises(block_data, tx_type) ==
    /\ "tx" \in DOMAIN block_data
    /\ "nTx" \in DOMAIN block_data
    /\ tx_type # "list"

DecodedInputs ==
    {[block_data |-> p, tx_type |-> "list"] : p \in ValidatorInputs}
    \cup {[block_data |-> p, tx_type |-> t] :
             p \in {q \in ValidatorInputs : "tx" \in DOMAIN q /\ q.tx = <<>>},
             t \in TxTypes \ {"list"}}

InitDecoded ==
    /\ db = EmptyDb
    /\ txn = None
    /\ wk = [w \in Callers |-> IdleWorker]
    /\ calls = 0
    /\ reorgs = 0
    /\ log = <<>>
    /\ chain = <<>>
    /\ config = DefaultConfig
    /\ pass = IdlePass
    /\ scan = IdleScan
    /\ val \in {[state |-> "decoded", block_data |-> d.block_data,
                 tx_type |-> d.tx_type] : d \in DecodedInputs}
    /\ mgr = NewManager
    /\ file = SchemaFile

\* DataValidator.validate_block_structure(block_data) returns (is_valid,
\* errors) or raises.  No check but the count check reads the value under `tx`
ValidateDecoded ==
    /\ val.state = "decoded"
    /\ IF StructureCheckRaises(val.block_data, val.tx_type)
       THEN val' = [state |-> "answered", block_data |-> val.block_data,
                    tx_type |-> val.tx_type, outcome |-> "raised"]
       ELSE val' = [state |-> "answered", block_data |-> val.block_data,
                    tx_type |-> val.tx_type, outcome |-> "returned",
                    is_valid |-> validate_block_structure(val.block_data),
                    errors |-> BlockStructureErrors(val.block_data)]
    /\ UNCHANGED <<db, txn, wk, calls, reorgs, log, chain, config, pass, scan, mgr, file>>

NextDecoded == ValidateDecoded

SpecDecoded == InitDecoded /\ [][NextDecoded]_vars


\* --------------------------------------------------- schema bootstrap
\* _create_schema: CREATE TABLE IF NOT EXISTS for each of the five tables;
\* the two AUTOINCREMENT tables bring sqlite_sequence with them
_create_schema(tables) == tables \cup SchemaTables \cup {"sqlite_sequence"}

\* _ensure_schema: the schema is created only when sqlite_master lists no
\* table at all
_ensure_schema(tables) == IF tables = {} THEN _create_schema(tables) ELSE tables

\* the files a DatabaseManager may be constructed on: any subset of the five
\* tables and the other application's table, each table with some rows
DatabaseFiles ==
    {[state |-> "closed",
      tables |-> S \cup (IF S \cap {"transaction_inputs", "transaction_outputs"} # {}
                         THEN {"sqlite_sequence"} ELSE {}),
      rows |-> r, rows0 |-> r, opens |-> 0] :
        S \in SUBSET (SchemaTables \cup {"other"}),
        r \in [AllTables -> 0..MaxRows]}

InitSchema ==
    /\ db = EmptyDb
    /\ txn = None
    /\ wk = [w \in Callers |-> IdleWorker]
    /\ calls = 0
    /\ reorgs = 0
    /\ log = <<>>
    /\ chain = <<>>
    /\ config = DefaultConfig
    /\ pass = IdlePass
    /\ scan = IdleScan
    /\ val = NoVal
    /\ mgr = NewManager
    /\ file \in {f \in DatabaseFiles :
                    \A t \in AllTables :
                        (t \notin f.tables \/ t = "sqlite_sequence") => f.rows[t] = 0}

\* DatabaseManager.__init__: _ensure_schema on the file at db_path
Construct ==
    /\ file.opens < MaxConstructions
    /\ file' = [file EXCEPT !.state = "constructed",
                            !.tables = _ensure_schema(@),
                            !.opens = @ + 1]
    /\ UNCHANGED <<db, txn, wk, calls, reorgs, log, chain, config, pass, scan, val, mgr>>

NextSchema == Construct

SpecSchema == InitSchema /\ [][NextSchema]_vars


\* ---------------------------------------------- the manager's life cycle
\* the outcomes of the last two start()/stop() calls
Last2(ops, o) == IF Len(ops) < 2 THEN Append(ops, o) ELSE <<ops[2], o>>

LastOp(m) == IF m.ops = <<>> THEN "none" ELSE m.ops[Len(m.ops)]

\* a start() without the `if self.running: return` guard
start_unguarded(m, rpc_ok) ==
    IF ~rpc_ok
    THEN [m EXCEPT !.running = TRUE, !.checks = @ + 1,
                   !.ops = Last2(@, "rpc_failed")]
    ELSE [m EXCEPT !.running = TRUE, !.checks = @ + 1, !.jobs = @ + 1,
                   !.sync_thread = TRUE, !.threads = @ + 1, !.syncs = @ + 1,
                   !.ops = Last2(@, "started")]

\* BitcoinSyncManager.start().  rpc_ok: get_blockchain_info returned.  The
\* running flag is set before the connection test, and the failure branch
\* returns without resetting it.  On success: the job is added to `schedule`,
\* the scheduler thread is created and started, and sync_new_blocks is called
\* once (the pass itself is the sync orchestrator's above)
start(m, rpc_ok) ==
    IF m.running
    THEN [m EXCEPT !.ops = Last2(@, "already")]
    ELSE IF ~rpc_ok
    THEN [m EXCEPT !.running = TRUE, !.checks = @ + 1,
                   !.ops = Last2(@, "rpc_failed")]
    ELSE [m EXCEPT !.running = TRUE, !.checks = @ + 1, !.jobs = @ + 1,
                   !.sync_thread = TRUE, !.threads = @ + 1, !.syncs = @ + 1,
                   !.ops = Last2(@, "started")]

\* BitcoinSyncManager.stop(): the flag is cleared and the scheduler thread, if
\* one was ever created, is joined: its loop `while self.running` ends.  The
\* job stays registered with `schedule`
stop(m) ==
    [m EXCEPT !.running = FALSE,
              !.threads = IF m.sync_thread THEN 0 ELSE @,
              !.ops = Last2(@, "stopped")]

\* _run_scheduler: schedule.run_pending() with the interval elapsed runs every
\* registered job, each a sync_new_blocks call
run_pending(m) == [m EXCEPT !.syncs = @ + m.jobs]

Start ==
    /\ mgr.starts < MaxStarts
    /\ \E rpc_ok \in BOOLEAN :
          mgr' = [start(mgr, rpc_ok) EXCEPT !.starts = @ + 1]
    /\ UNCHANGED <<db, txn, wk, calls, reorgs, log, chain, config, pass, scan, val, file>>

Stop ==
    /\ mgr.stops < MaxStops
    /\ mgr' = [stop(mgr) EXCEPT !.stops = @ + 1]
    /\ UNCHANGED <<db, txn, wk, calls, reorgs, log, chain, config, pass, scan, val, file>>

SchedulerTick ==
    /\ mgr.running
    /\ mgr.threads > 0
    /\ mgr.ticks < MaxTicks
    /\ mgr' = [run_pending(mgr) EXCEPT !.ticks = @ + 1]
    /\ UNCHANGED <<db, txn, wk, calls, reorgs, log, chain, config, pass, scan, val, file>>

NextLife == Start \/ Stop \/ SchedulerTick

SpecLife == Init /\ [][NextLife]_vars


\* ------------------------------------ the calling and the scheduler thread
\* start() up to its initial sync_new_blocks call: the effects of start on the
\* flag, the jobs and the thread; a started scheduler thread is at its loop
\* test, and the calling thread is inside the initial pass
StartBegins ==
    /\ mgr.caller = "idle"
    /\ mgr.starts < MaxStarts
    /\ \E rpc_ok \in BOOLEAN :
          LET m == start(mgr, rpc_ok)
              started == LastOp(m) = "started"
          IN mgr' = [m EXCEPT !.starts = @ + 1,
                              !.caller = IF started THEN "initial_pass" ELSE "idle",
                              !.sched = IF started THEN "check" ELSE @]
    /\ UNCHANGED <<db, txn, wk, calls, reorgs, log, chain, config, pass, scan, val, file>>

\* the initial sync_new_blocks call returns, and start() with it
InitialPassEnds ==
    /\ mgr.caller = "initial_pass"
    /\ mgr' = [mgr EXCEPT !.caller = "idle"]
    /\ UNCHANGED <<db, txn, wk, calls, reorgs, log, chain, config, pass, scan, val, file>>

\* stop() clears the flag and goes on to join the thread
StopBegins ==
    /\ mgr.caller = "idle"
    /\ mgr.stops < MaxStops
    /\ mgr' = [mgr EXCEPT !.running = FALSE, !.caller = "joining"]
    /\ UNCHANGED <<db, txn, wk, calls, reorgs, log, chain, config, pass, scan, val, file>>

\* a stop() that returns without waiting for the scheduler thread
StopReturnsEarly ==
    /\ mgr.caller = "joining"
    /\ mgr' = [mgr EXCEPT !.caller = "idle", !.stops = @ + 1,
                          !.ops = Last2(@, "stopped")]
    /\ UNCHANGED <<db, txn, wk, calls, reorgs, log, chain, config, pass, scan, val, file>>

\* `if self.sync_thread: self.sync_thread.join()` returns once the thread has
\* ended; stop() returns
StopReturns ==
    /\ mgr.caller = "joining"
    /\ ~mgr.sync_thread \/ mgr.sched = "none"
    /\ mgr' = [mgr EXCEPT !.caller = "idle", !.stops = @ + 1,
                          !.ops = Last2(@, "stopped")]
    /\ UNCHANGED <<db, txn, wk, calls, reorgs, log, chain, config, pass, scan, val, file>>

\* _run_scheduler: the test of `while self.running`; the thread ends when the
\* flag is cleared
SchedulerTests ==
    /\ mgr.sched = "check"
    /\ mgr' = IF mgr.running
              THEN [mgr EXCEPT !.sched = "run"]
              ELSE [mgr EXCEPT !.sched = "none", !.threads = @ - 1]
    /\ UNCHANGED <<db, txn, wk, calls, reorgs, log, chain, config, pass, scan, val, file>>

\* schedule.run_pending(): with the interval elapsed the first registered job
\* calls sync_new_blocks on this thread; otherwise the thread sleeps a second
\* and tests the flag again
SchedulerRuns ==
    /\ mgr.sched = "run"
    /\ \E due \in BOOLEAN :
          IF due /\ mgr.jobs > 0 /\ mgr.ticks < MaxTicks
          THEN mgr' = [mgr EXCEPT !.sched = "pass", !.todo = mgr.jobs,
                                  !.ticks = @ + 1, !.syncs = @ + 1]
          ELSE mgr' = [mgr EXCEPT !.sched = "check"]
    /\ UNCHANGED <<db, txn, wk, calls, reorgs, log, chain, config, pass, scan, val, file>>

\* the sync_new_blocks call of a job returns: the next due job is run, or
\* run_pending returns and the thread sleeps and tests the flag
SchedulerPassEnds ==
    /\ mgr.sched = "pass"
    /\ mgr' = IF mgr.todo > 1
              THEN [mgr EXCEPT !.todo = @ - 1, !.syncs = @ + 1]
              ELSE [mgr EXCEPT !.todo = 0, !.sched = "check"]
    /\ UNCHANGED <<db, txn, wk, calls, reorgs, log, chain, config, pass, scan, val, file>>

SchedulerStep == SchedulerTests \/ SchedulerRuns \/ SchedulerPassEnds

NextThreads ==
    \/ StartBegins
    \/ InitialPassEnds
    \/ StopBegins
    \/ StopReturns
    \/ SchedulerTests
    \/ SchedulerRuns
    \/ SchedulerPassEnds

\* the scheduler thread, once started, keeps being scheduled
SpecThreads == Init /\ [][NextThreads]_vars /\ WF_vars(SchedulerStep)


\* ------------------------------------------------- properties of the store
\* w returns from insert_block_atomic in this step
Returns(w) == wk[w].pc \in {"waiting", "tx"} /\ wk'[w].pc = "done"

\* every row of payload p is in database d, and the cursor names p
Complete(d, p) ==
    /\ \E b \in d.blocks : b.hash = p.hash /\ b.sync_status = "synced"
    /\ \A i \in 1..Len(p.tx) :
         LET t == p.tx[i] IN
         /\ [txid |-> t.txid, block_hash |-> p.hash, sync_status |-> "synced"]
               \in d.transactions
         /\ \A j \in 1..Len(t.vin) : InputRow(t.txid, j - 1, t.vin[j]) \in SeqToSet(d.inputs)
         /\ \A j \in 1..Len(t.vout) : OutputRow(t.txid, t.vout[j]) \in SeqToSet(d.outputs)
    /\ d.sync_status = Some([last_sync_height |-> p.height, last_sync_hash |-> p.hash])

\* C1: atomicity of insert_block_atomic.  Whenever a call returns failure
\* (validation fails, a row insert raises, or the post-write count check
\* fails), every table of the database is as it was when the call's
\* transaction began, which is also what it was throughout the transaction.
C1_Atomicity ==
    [][\A w \in DOMAIN wk :
          (Returns(w) /\ ~wk'[w].ok) =>
             /\ db' = db
             /\ txn # None => db' = txn[1].base]_vars

\* a call failed after it had written rows, on a store that already held a block
C1_Witness ==
    \E w \in DOMAIN wk :
        /\ wk[w].pc = "done" /\ ~wk[w].ok
        /\ validate_block_structure(wk[w].p)
        /\ db.blocks # {}

\* C2 (as claimed): idempotence of insert_block_atomic.  When a call commits
\* payload P and the last committed write before it was a call with the same
\* P, the database after the second call equals the database after the first.
C2_Idempotent ==
    [][\A w \in DOMAIN wk :
          (Returns(w) /\ wk'[w].ok /\ Len(log) > 0
             /\ log[Len(log)] = [op |-> "insert", p |-> wk'[w].p])
          => db' = db]_vars

\* C3 (as claimed): count invariant.  Every block row with sync_status
\* 'synced' and a declared nTx has exactly nTx transaction rows whose
\* block_hash is its hash.
C3_CountInvariant ==
    \A b \in ReaderView.blocks :
        (b.sync_status = "synced" /\ b.nTx # None) =>
            b.nTx[1] = Cardinality({t \in ReaderView.transactions : t.block_hash = b.hash})

\* C5 (as claimed): blocks are never physically deleted.  A block row that
\* has been orphaned by a reorg still has a row with its hash after every
\* later step.
C5_NeverDeleted ==
    [][\A b \in db.blocks :
          b.sync_status = "orphaned" => \E b2 \in db'.blocks : b2.hash = b.hash]_vars

\* C9: no partially visible block.  What a reader sees changes only when
\* handle_reorg commits or when an insert_block_atomic call commits, and then
\* the block row, every transaction, input and output row of the payload and
\* the cursor naming the block become visible together.
C9_NoPartialBlock ==
    [][ReaderView' # ReaderView =>
          \/ reorgs' = reorgs + 1
          \/ \E w \in DOMAIN wk :
                /\ Returns(w) /\ wk'[w].ok
                /\ Complete(ReaderView', wk'[w].p)]_vars

\* an insert has written its block row and one of its two transactions, a
\* second caller waits for the lock, and a reader does not see the block
C9_Witness ==
    /\ txn # None
    /\ LET w == txn[1].owner IN
         /\ wk[w].i = 2 /\ Len(wk[w].p.tx) = 2
         /\ \E b \in txn[1].work.blocks : b.hash = wk[w].p.hash
         /\ ~block_exists(wk[w].p.hash)
         /\ Waiting # {}

\* the blocks at heights lo..hi are all stored and synced in d
SyncedRange(d, lo, hi) ==
    \A h \in lo..hi :
        \E b \in d.blocks : b.height = Some(h) /\ b.sync_status = "synced"

\* C6: reorg safety of handle_reorg.  When the store holds synced blocks at
\* heights H-5..H and handle_reorg is called with the hash of the block stored
\* at height H-2, afterwards every block with height >= H-2 is orphaned, every
\* other block has the status it had (so H-5..H-3 are still synced), and no
\* block row is added or removed.
C6_ReorgSafety ==
    [][\A b0 \in db.blocks :
          LET H == b0.height[1] + 2 IN
          (/\ reorgs' = reorgs + 1
           /\ log'[Len(log')] = [op |-> "reorg", hash |-> b0.hash]
           /\ H - 5 >= 0
           /\ SyncedRange(db, H - 5, H))
          => /\ {b.hash : b \in db'.blocks} = {b.hash : b \in db.blocks}
             /\ \A b \in db.blocks :
                   [b EXCEPT !.sync_status =
                       IF b.height[1] >= H - 2 THEN "orphaned" ELSE @] \in db'.blocks
             /\ SyncedRange(db', H - 5, H - 3)]_vars

\* heights 0..5 were synced, handle_reorg was called with the hash stored at
\* height 3: heights 0..2 are synced and heights 3..5 are orphaned
C6_Witness ==
    /\ log # <<>>
    /\ log[Len(log)] = [op |-> "reorg", hash |-> RemoteHash(3, 1)]
    /\ SyncedRange(db, 0, 2)
    /\ \A h \in 3..5 :
          \E b \in db.blocks : b.height = Some(h) /\ b.sync_status = "orphaned"

\* ------------------------------------------ properties of the orchestrator
\* C4 (as claimed): failed heights are retried.  A pass that submits units
\* right after a pass in which height h failed while a greater height
\* succeeded submits a unit for h.
C4_FailedRetried ==
    pass.state = "running" => pass.gap \subseteq pass.range

\* C7 (as claimed): when a pass has completed, last_sync_height of the
\* sync_status row equals the greatest height among the synced blocks.
C7_CursorIsMax ==
    (pass.state = "idle" /\ pass.no > 0 /\ get_latest_block_height # None) =>
        /\ ReaderView.sync_status # None
        /\ ReaderView.sync_status[1].last_sync_height = get_latest_block_height[1]

\* a payload the validator accepts whose transactions all carry a txid, each once
WellFormed(p) ==
    /\ validate_block_structure(p)
    /\ \A i \in 1..Len(p.tx) : "txid" \in DOMAIN p.tx[i]
    /\ \A i, j \in 1..Len(p.tx) : p.tx[i].txid = p.tx[j].txid => i = j

\* w1 and w2 have each returned from insert_block_atomic, called with
\* well-formed payloads of different heights, different hashes and disjoint
\* txids, for blocks of which the store held no transaction of another content
PairOfInserts(w1, w2) ==
    /\ w1 # w2
    /\ wk[w1].pc = "done" /\ wk[w2].pc = "done"
    /\ wk[w1].p # NoPayload /\ wk[w2].p # NoPayload
    /\ WellFormed(wk[w1].p) /\ WellFormed(wk[w2].p)
    /\ wk[w1].fresh /\ wk[w2].fresh
    /\ wk[w1].p.height # wk[w2].p.height
    /\ wk[w1].p.hash # wk[w2].p.hash
    /\ TxidsOf(wk[w1].p) \cap TxidsOf(wk[w2].p) = {}

\* the two calls were the last two writes, and every other block row is lower
LastTwoWrites(w1, w2) ==
    /\ log = <<[op |-> "insert", p |-> wk[w1].p], [op |-> "insert", p |-> wk[w2].p]>>
    /\ \A b \in db.blocks :
          b.hash \notin {wk[w1].p.hash, wk[w2].p.hash} =>
              b.height[1] < Min({wk[w1].p.height, wk[w2].p.height})

\* C8: concurrent inserts of different heights.  Two such calls both return
\* success, in whichever order the store serialized them, and when they were
\* the last two writes get_latest_block_height() is the greater height.
C8_ConcurrentInserts ==
    \A w1, w2 \in DOMAIN wk :
        PairOfInserts(w1, w2) =>
            /\ wk[w1].ok /\ wk[w2].ok
            /\ LastTwoWrites(w1, w2) =>
                 get_latest_block_height
                    = Some(Max({wk[w1].p.height, wk[w2].p.height}))

\* two units of one pass inserted heights h and h+1 while h-1 was synced; the
\* second waited for the lock while the first held it
C8_Witness ==
    \E w1, w2 \in DOMAIN wk :
        /\ PairOfInserts(w1, w2) /\ LastTwoWrites(w1, w2)
        /\ wk[w1].ok /\ wk[w2].ok
        /\ w2 \in wk[w1].others
        /\ \E b \in db.blocks :
              /\ b.sync_status = "synced"
              /\ b.height[1] + 1 = Min({wk[w1].p.height, wk[w2].p.height})

\* C10 (as claimed): the store is not called for a structurally invalid
\* block.  A unit is inside insert_block_atomic only with a payload that
\* passes validate_block_structure.
C10_StoreNotCalled ==
    \A w \in DOMAIN wk :
        wk[w].pc \in {"waiting", "tx"} /\ wk[w].p # NoPayload
            => validate_block_structure(wk[w].p)

\* --------------------------------------------- properties of the validator
\* C11: transaction-count check of the validator.  For a payload that carries
\* both tx and nTx, validate_block_structure returns invalid with a
\* "Transaction count mismatch" error when nTx differs from the length of tx,
\* and returns no such error when they are equal.
C11_CountCheck ==
    (/\ val.state = "returned"
     /\ {"tx", "nTx"} \subseteq DOMAIN val.block_data)
    => IF val.block_data.nTx # Len(val.block_data.tx)
       THEN ~val.is_valid /\ "Transaction count mismatch" \in SeqToSet(val.errors)
       ELSE "Transaction count mismatch" \notin SeqToSet(val.errors)

\* the validator returned for a payload whose only defect is nTx = 2 with one
\* transaction
C11_Witness ==
    /\ val.state = "returned"
    /\ val.block_data = [Block(HashA, 0, <<T1>>) EXCEPT !.nTx = 2]
    /\ val.errors = <<"Transaction count mismatch">>

\* C12 (as claimed): genesis scenario.  For the payload with the fields hash,
\* height 0, nTx 1 and tx only, the validator returns valid, and
\* insert_block_atomic on an empty store returns success, after which
\* get_latest_block_height() is 0.
C12_GenesisAsClaimed ==
    [][\A w \in DOMAIN wk :
          (Returns(w) /\ db = EmptyDb /\ wk'[w].p = GenesisScenario)
          => /\ validate_block_structure(GenesisScenario)
             /\ wk'[w].ok
             /\ get_latest_block_height' = Some(0)]_vars

\* C12: genesis scenario.  For the genesis payload that also carries time and
\* merkleroot the validator returns valid, insert_block_atomic on an empty
\* store returns success and get_latest_block_height() is then 0.  For the
\* same payload without time and merkleroot the validator reports the two
\* missing fields, insert_block_atomic returns failure and the store stays
\* empty.
C12_Genesis ==
    [][\A w \in DOMAIN wk :
          /\ (Returns(w) /\ db = EmptyDb /\ wk'[w].p = GenesisBlock)
             => /\ validate_block_structure(GenesisBlock)
                /\ wk'[w].ok
                /\ get_latest_block_height' = Some(0)
          /\ (Returns(w) /\ db = EmptyDb /\ wk'[w].p = GenesisScenario)
             => /\ BlockStructureErrors(GenesisScenario)
                     = <<"Missing required field: time",
                         "Missing required field: merkleroot">>
                /\ ~wk'[w].ok
                /\ db' = EmptyDb
                /\ get_latest_block_height' = None]_vars

\* the first write of an empty store was the insert of the genesis block
C12_Witness ==
    \E w \in DOMAIN wk :
        /\ wk[w].pc = "done" /\ wk[w].ok /\ wk[w].p = GenesisBlock
        /\ log = <<[op |-> "insert", p |-> GenesisBlock]>>
        /\ get_latest_block_height = Some(0)

\* the number of coinbase-marked inputs across the transactions of a payload
RECURSIVE CoinbaseInputs(_)
CoinbaseInputs(txs) ==
    IF txs = <<>> THEN 0
    ELSE Cardinality({j \in 1..Len(Head(txs).vin) : "coinbase" \in DOMAIN Head(txs).vin[j]})
         + CoinbaseInputs(Tail(txs))

\* C13 (as claimed): coinbase uniqueness.  validate_block_structure returns
\* invalid for every payload whose transactions hold zero coinbase-marked
\* inputs or more than one.
C13_CoinbaseUniqueness ==
    (/\ val.state = "returned"
     /\ "tx" \in DOMAIN val.block_data
     /\ CoinbaseInputs(val.block_data.tx) # 1)
    => ~val.is_valid

\* C14: the deterministic validator is always a gate.  Under every
\* configuration, whatever validate_transformation answered, every committed
\* block row has a hash of length 64 and a non-negative integer height, and
\* the payload of every committed insert passes validate_block_structure.
C14_ValidatorIsGate ==
    /\ \A b \in ReaderView.blocks :
          b.hash.len = 64 /\ b.height # None /\ b.height[1] >= 0
    /\ \A i \in 1..Len(log) :
          log[i].op = "insert" => BlockStructureErrors(log[i].p) = <<>>

\* without an API key a unit handed the store a payload with a negative
\* height or a truncated hash, and the store refused it
C14_Witness ==
    \E w \in DOMAIN wk :
        /\ ~Enabled(config)
        /\ wk[w].pc = "done" /\ ~wk[w].ok
        /\ wk[w].p # NoPayload
        /\ (wk[w].p.height < 0 \/ wk[w].p.hash.len # 64)
        /\ ReaderView.blocks # {}

\* C15: uniqueness invariant.  No two block rows share a hash, orphaned rows
\* included, and no two block rows with sync_status 'synced' share a height.
C15_Uniqueness ==
    \A b1, b2 \in ReaderView.blocks :
        /\ b1.hash = b2.hash => b1 = b2
        /\ (/\ b1.sync_status = "synced" /\ b2.sync_status = "synced"
            /\ b1.height # None /\ b1.height = b2.height) => b1 = b2

\* the last two committed writes were inserts of blocks with different hashes
\* at one height
C15_Witness ==
    /\ Len(log) = 2
    /\ log[1].op = "insert" /\ log[2].op = "insert"
    /\ log[1].p.hash # log[2].p.hash
    /\ log[1].p.height = log[2].p.height
    /\ \E b \in ReaderView.blocks : b.hash = log[2].p.hash

\* C16 (as claimed): transaction status mirrors block status.  Every
\* transaction row whose owning block row exists has the sync_status of that
\* block row.
C16_StatusMirrors ==
    \A t \in ReaderView.transactions, b \in ReaderView.blocks :
        t.block_hash = b.hash => t.sync_status = b.sync_status

\* C17 (as claimed): referential integrity of transactions.  Every
\* transaction row's block_hash is the hash of a row of the blocks table.
C17_NoOrphanedTransactions ==
    \A t \in ReaderView.transactions :
        \E b \in ReaderView.blocks : b.hash = t.block_hash

\* a row without its sync_status field
Unmarked(row) == [k \in DOMAIN row \ {"sync_status"} |-> row[k]]

\* C18: frame of handle_reorg.  handle_reorg(h) changes nothing but the
\* sync_status field of block rows and transaction rows: the block and
\* transaction rows are the same rows before and after, the input rows, the
\* output rows and the cursor are untouched, and when h is not the hash of a
\* stored block no block changes status.
C18_ReorgFrame ==
    [][reorgs' = reorgs + 1 =>
          LET h == log'[Len(log')].hash IN
          /\ {Unmarked(b) : b \in db'.blocks} = {Unmarked(b) : b \in db.blocks}
          /\ Cardinality(db'.blocks) = Cardinality(db.blocks)
          /\ {Unmarked(t) : t \in db'.transactions}
                = {Unmarked(t) : t \in db.transactions}
          /\ Cardinality(db'.transactions) = Cardinality(db.transactions)
          /\ db'.inputs = db.inputs
          /\ db'.outputs = db.outputs
          /\ db'.sync_status = db.sync_status
          /\ (\A b \in db.blocks : b.hash # h) => db'.blocks = db.blocks]_vars

\* handle_reorg has orphaned a stored block and its transaction
C18_Witness ==
    /\ log # <<>>
    /\ log[Len(log)].op = "reorg"
    /\ \E b \in db.blocks :
          /\ b.hash = log[Len(log)].hash /\ b.sync_status = "orphaned"
          /\ \E t \in db.transactions :
                t.block_hash = b.hash /\ t.sync_status = "orphaned"

\* ------------------------------------- properties of check_for_reorgs
\* C19: RPC errors are not evidence of a reorg.  When get_block_hash fails for
\* a checked height, the store is left alone, handle_reorg is not invoked and
\* the scan goes on with the next lower row; handle_reorg is invoked only for
\* a row whose hash differs from the hash the network returned.
C19_RpcErrorSkipped ==
    [][/\ (/\ scan.state = "running" /\ scan.rows # <<>>
           /\ Head(scan.rows).height \in scan'.failed)
          => /\ db' = db
             /\ reorgs' = reorgs
             /\ scan'.state = "running"
             /\ scan'.rows = Tail(scan.rows)
       /\ reorgs' = reorgs + 1
          => /\ scan.state = "running" /\ scan.rows # <<>>
             /\ Head(scan.rows).height \notin scan'.failed
             /\ log'[Len(log')] = [op |-> "reorg", hash |-> Head(scan.rows).hash]
             /\ RemoteHash(Head(scan.rows).height, chain[Head(scan.rows).height + 1])
                   # Head(scan.rows).hash]_vars

\* get_block_hash failed for one height and the scan then compared a lower one
C19_Witness ==
    /\ scan.state = "running"
    /\ \E f \in scan.failed, c \in scan.checked : c < f
    /\ reorgs = 0

\* ------------------------------------------ containment of unit failures
\* C20: per-height failure containment.  While a pass runs, whatever units
\* have failed, every height of its range has completed, is being processed
\* or is still queued to be processed, and every height whose unit returned
\* success is stored as a synced block; the pass ends only when every height
\* of the range has completed.
C20_FailureContained ==
    /\ pass.state = "running" =>
          /\ pass.range = pass.ok \cup pass.failed \cup SeqToSet(pass.queue)
                            \cup {wk[w].height : w \in {x \in DOMAIN wk : wk[x].pc # "idle"}}
          /\ \A h \in pass.ok :
                \E b \in ReaderView.blocks :
                    b.height = Some(h) /\ b.sync_status = "synced"
    /\ (pass.state = "idle" /\ pass.range # {}) =>
          pass.range = pass.ok \cup pass.failed

\* a pass ended in which the unit of one height failed and the unit of a
\* greater height stored its block
C20_Witness ==
    /\ pass.state = "idle"
    /\ \E f \in pass.failed, h \in pass.ok :
          /\ h > f
          /\ \E b \in ReaderView.blocks : b.height = Some(h) /\ b.sync_status = "synced"


\* ------------------------------------------ properties of the life cycle
\* this step is a start() call, a stop() call
IsStart == mgr'.starts = mgr.starts + 1
IsStop == mgr'.stops = mgr.stops + 1

\* C21: startup aborts on RPC connectivity failure.  A start() whose
\* get_blockchain_info call fails schedules no job, starts no scheduler
\* thread and leaves the running flag false; and the start() that follows a
\* failed one makes the connectivity check again.
C21_StartupAborts ==
    [][/\ (IsStart /\ LastOp(mgr') = "rpc_failed") =>
             /\ ~mgr'.running
             /\ mgr'.jobs = mgr.jobs
             /\ mgr'.threads = mgr.threads
       /\ (IsStart /\ LastOp(mgr) = "rpc_failed") =>
             mgr'.checks = mgr.checks + 1]_vars

\* C22: start and stop are idempotent.  A start() on a manager that is
\* running registers no job, starts no thread and calls no sync; a stop()
\* that follows a stop() changes nothing of the manager.
C22_Idempotent ==
    [][/\ (IsStart /\ mgr.running) =>
             /\ mgr'.jobs = mgr.jobs
             /\ mgr'.threads = mgr.threads
             /\ mgr'.sync_thread = mgr.sync_thread
             /\ mgr'.syncs = mgr.syncs
             /\ mgr'.running
       /\ (IsStop /\ LastOp(mgr) = "stopped") =>
             [mgr' EXCEPT !.stops = mgr.stops, !.ops = mgr.ops] = mgr]_vars

\* start() was called on a manager that a successful start() had left
\* running with its one job and its one thread
C22_Witness ==
    /\ mgr.ops = <<"started", "already">>
    /\ mgr.running
    /\ mgr.jobs = 1
    /\ mgr.threads = 1


\* ------------------------------------ properties of the advisory validator
\* C23 (as claimed): without an API key the advisory validator equals the
\* structural validator.  For every payload,
\* validate_block_with_llm_assistance(P, None) returns what
\* validate_block_structure(P) returns.
C23_AdvisoryEqualsStructural ==
    (val.state = "advised" /\ val.api_key = "")
    => (val.is_valid = validate_block_structure(val.block_data))


\* ---------------------------------------------- properties of a sync pass
\* the heights of the synced blocks of store d
SyncedHeights(d) ==
    {b.height[1] : b \in {c \in d.blocks : c.sync_status = "synced" /\ c.height # None}}

\* no pass and no unit is running, and the store's latest synced height has
\* reached the tip of the remote chain: sync_new_blocks is a no-op from here on
Quiescent ==
    /\ pass.state = "idle"
    /\ txn = None
    /\ \A w \in DOMAIN wk : wk[w].pc = "idle"
    /\ SyncedHeights(db) # {}
    /\ Max(SyncedHeights(db)) >= network_height

\* every height up to the remote tip has a synced block with the remote hash
Converged ==
    \A h \in 0..network_height :
        \E b \in db.blocks :
            /\ b.height = Some(h)
            /\ b.sync_status = "synced"
            /\ b.hash = RemoteHash(h, chain[h + 1])

\* C24 (as claimed): convergence.  With the remote chain unchanged, once the
\* passes have nothing left to do (the latest synced height has reached the
\* remote tip, so that every later pass returns without a unit), every height
\* from 0 to the remote tip has a stored synced block with the remote hash,
\* whatever failures happened before.
C24_Convergence == Quiescent => Converged

\* C25: range of a sync pass.  With the remote tip T and the latest synced
\* height L (start = 0 without a synced block, else L + 1), a pass that
\* dispatches units submits each height of
\* [start, min(start + max_blocks_per_sync - 1, T)] once, in order: at most
\* max_blocks_per_sync heights, none above T and none at or below L.
C25_PassRange ==
    [][(pass.state = "idle" /\ pass'.state = "running") =>
          LET start_height == IF SyncedHeights(db) = {} THEN 0
                       ELSE Max(SyncedHeights(db)) + 1
              end_height == Min({start_height + max_blocks_per_sync - 1, network_height})
          IN /\ pass'.queue = [i \in 1..(end_height - start_height + 1) |-> start_height + i - 1]
             /\ pass'.range = SeqToSet(pass'.queue)
             /\ Len(pass'.queue) <= max_blocks_per_sync
             /\ \A h \in pass'.range :
                   /\ h <= network_height
                   /\ \A l \in SyncedHeights(db) : h > l]_vars

\* a pass dispatched max_blocks_per_sync heights, all of them taken by units,
\* and its range stops below the remote tip
C25_Witness ==
    /\ pass.state = "running"
    /\ Cardinality(pass.range) = max_blocks_per_sync
    /\ Max(pass.range) < network_height
    /\ pass.queue = <<>>


\* C26: an up-to-date pass is a no-op.  A sync_new_blocks call made when the
\* latest synced height is at or above the remote tip ends within the call:
\* no unit is dispatched, so no get_block_hash or get_block call is made, and
\* the store is unchanged.
C26_UpToDateNoOp ==
    [][(/\ pass.state = "idle"
        /\ pass'.no = pass.no + 1
        /\ SyncedHeights(db) # {}
        /\ Max(SyncedHeights(db)) >= network_height)
       => /\ pass'.state = "idle"
          /\ pass'.queue = <<>>
          /\ pass'.range = {}
          /\ wk' = wk
          /\ db' = db
          /\ txn' = txn
          /\ log' = log]_vars

\* the second pass found the store at the remote tip and returned at once
C26_Witness ==
    /\ pass.state = "idle"
    /\ pass.no = 2
    /\ pass.range = {}
    /\ SyncedHeights(db) # {}
    /\ Max(SyncedHeights(db)) >= network_height
    /\ reorgs = 0
    /\ \A i \in DOMAIN chain : chain[i] = 1

ScanRow == Head(scan.rows)
Differs(r) == RemoteHash(r.height, chain[r.height + 1]) # r.hash

\* C28: one reorg check pass is terminal in one step.  check_for_reorgs
\* invokes handle_reorg at most once per pass, for the first row in
\* descending height order whose remote hash differs; after it no row is left
\* to compare, so no height below it is looked up; and a row that matches, or
\* whose lookup fails, leaves the store unchanged and handle_reorg uncalled.
C28_OneReorgPerCheck ==
    [][/\ Cardinality(scan'.hit) <= 1
       /\ scan'.hit # {} =>
             /\ scan'.rows = <<>>
             /\ \A c \in scan'.checked \cup scan'.failed :
                   \A h \in scan'.hit : c >= h
       /\ (scan.state = "running" /\ scan'.hit # scan.hit) =>
             /\ Differs(ScanRow)
             /\ scan'.hit = {ScanRow.height}
             /\ reorgs' = reorgs + 1
             /\ db' = handle_reorg(db, ScanRow.hash)
       /\ (scan.state = "running" /\ scan'.hit = scan.hit) =>
             /\ db' = db
             /\ reorgs' = reorgs
             /\ scan'.checked # scan.checked => ~Differs(ScanRow)]_vars

\* a check compared a matching row first and then invoked handle_reorg for a
\* lower row, with a synced row still below it
C28_Witness ==
    /\ scan.state = "running"
    /\ scan.hit # {}
    /\ \E c \in scan.checked : \A h \in scan.hit : c > h
    /\ \E b \in db.blocks :
          /\ b.sync_status = "synced"
          /\ \A h \in scan.hit : b.height[1] < h

\* C29 (as claimed): a reorg invalidates everything at and above the
\* divergence.  When the rows of the safety window differ from the remote chain
\* at every height from d up to the latest synced height, the check, run
\* without an RPC error, leaves every stored block of height >= d orphaned.
C29_OrphansFromDivergence ==
    [][(/\ scan.state = "running"
        /\ scan'.hit # scan.hit
        /\ scan.checked = {}
        /\ scan.failed = {})
       => \A d \in {r.height : r \in SeqToSet(scan.rows)} :
             (\A r \in SeqToSet(scan.rows) : r.height >= d => Differs(r))
             => \A b \in db'.blocks :
                   (b.height # None /\ b.height[1] >= d)
                   => b.sync_status = "orphaned"]_vars

\* C30 (as claimed): safety window selection.  With N = reorg_safety_blocks
\* and k synced blocks in the store, a check_for_reorgs call compares the
\* min(N, k) synced blocks of greatest height, in descending height order,
\* also when the latest synced height is smaller than N.
C30_SafetyWindow ==
    [][(scan.state = "idle" /\ scan'.no = scan.no + 1)
       => LET synced == {b \in db.blocks : b.sync_status = "synced" /\ b.height # None}
              n == Min({reorg_safety_blocks, Cardinality(synced)})
          IN scan'.rows = SubSeq(RowsDesc(synced), 1, n)]_vars


\* -------------------------------------------- properties of the cursor
\* C31 (as claimed): the cursor never points at orphaned history.  While no
\* write is in progress, the sync_status row, if it exists, names by
\* last_sync_height and last_sync_hash a block row whose sync_status is
\* 'synced', also after handle_reorg orphaned the block it referred to.
C31_CursorOnSynced ==
    (txn = None /\ db.sync_status # None) =>
        \E b \in db.blocks :
            /\ b.hash = db.sync_status[1].last_sync_hash
            /\ b.height = Some(db.sync_status[1].last_sync_height)
            /\ b.sync_status = "synced"


\* ------------------------------------ properties of the structural checks
\* a string of exactly 64 hexadecimal characters
IsHex64(s) == s.len = 64 /\ s.ch \in HexDigits

\* C32 (as claimed): hash format check.  validate_block_structure returns
\* invalid for every payload whose hash is not a string of exactly 64
\* hexadecimal characters, 64 non-hexadecimal characters included.
C32_HashFormat ==
    (/\ val.state = "returned"
     /\ "hash" \in DOMAIN val.block_data => ~IsHex64(val.block_data.hash))
    => ~val.is_valid


\* the per-transaction structural checks: txid, vin and vout present, a txid
\* of 64 hexadecimal characters, at least one input and one output
TxWellFormed(tx) ==
    /\ {"txid", "vin", "vout"} \subseteq DOMAIN tx
    /\ IsHex64(tx.txid)
    /\ tx.vin # <<>>
    /\ tx.vout # <<>>

\* C33 (as claimed): the per-transaction structural checks gate storage.  A
\* payload with a transaction that lacks txid, vin or vout, whose txid is not
\* 64 hexadecimal characters, or whose vin or vout is empty is never committed
\* by insert_block_atomic.
C33_TxChecksGate ==
    \A i \in 1..Len(log) :
        log[i].op = "insert" =>
            \A j \in 1..Len(log[i].p.tx) : TxWellFormed(log[i].p.tx[j])

\* C34 (as claimed): input kind is exclusive.  Every transaction_inputs row
\* has exactly one of the two markers: a previous-output reference (prev_txid
\* with vout) or a coinbase value.
C34_InputKindExclusive ==
    \A i \in 1..Len(ReaderView.inputs) :
        LET row == ReaderView.inputs[i]
        IN (row.prev_txid # None /\ row.vout # None) # (row.coinbase # None)


\* C35 (as claimed): the validator never raises on malformed content.  For
\* every decoded payload, also one whose tx is None or a number while nTx is
\* present, validate_block_structure returns a (valid, errors) pair with valid
\* true exactly when errors is empty.
C35_NeverRaises ==
    val.state = "answered" =>
        /\ val.outcome = "returned"
        /\ val.is_valid <=> (val.errors = <<>>)


\* ------------------------------------ properties of the schema bootstrap
\* C36 (as claimed): schema bootstrap is create-if-absent per table.  After a
\* DatabaseManager is constructed on any database file, the five tables
\* exist and the rows present before are unchanged.
C36_SchemaBootstrap ==
    (file.state = "constructed" /\ file.opens > 0) =>
        /\ SchemaTables \subseteq file.tables
        /\ file.rows = file.rows0


\* ------------------------------------------- properties of the two threads
\* C37: cooperative stop.  After stop() cleared the flag the scheduler thread
\* eventually ends; stop() moves the thread nowhere, and a pass the thread is
\* in is left only by the return of its sync_new_blocks calls; and the
\* scheduler starts no pass while the last call to have returned is a stop().
C37_CooperativeStop ==
    /\ (mgr.caller = "joining") ~> (mgr.sched = "none")
    /\ [][/\ (mgr.caller = "idle" /\ mgr'.caller = "joining") =>
                 (mgr'.sched = mgr.sched /\ mgr'.todo = mgr.todo)
          /\ (mgr.sched = "pass" /\ mgr'.sched # "pass") =>
                 (mgr'.sched = "check" /\ mgr.todo = 1)
          /\ (mgr.sched # "pass" /\ mgr'.sched = "pass") =>
                 LastOp(mgr) # "stopped"]_vars

\* stop() has cleared the flag and waits while the scheduler thread is inside
\* a pass
C37_Witness ==
    /\ mgr.caller = "joining"
    /\ ~mgr.running
    /\ mgr.sched = "pass"

\* C38 (as claimed): a canonical block does not stay orphaned.  When a unit of
\* a sync pass returns True for a height whose hash is the one the remote
\* chain reports there, every stored row of that hash is marked 'synced'.
C38_CanonicalResynced ==
    [][\A w \in DOMAIN wk :
          (/\ wk[w].pc = "done"
           /\ wk'[w].pc = "idle"
           /\ wk[w].ok
           /\ wk[w].hash = RemoteHash(wk[w].height, chain[wk[w].height + 1]))
          => \A b \in db'.blocks :
                b.hash = wk[w].hash => b.sync_status = "synced"]_vars

\* C39 (as claimed): sync passes do not overlap.  Under every interleaving of
\* the calling thread (the initial pass of start()) and the scheduler thread
\* (the recurring passes), at most one sync_new_blocks call is executing.
C39_PassesDoNotOverlap ==
    ~(mgr.caller = "initial_pass" /\ mgr.sched = "pass")

\* C40 (as claimed): at most one recurring sync job.  After any sequence of
\* start() and stop() calls at most one sync_new_blocks job is registered with
\* the scheduler and at most one scheduler thread is alive.
C40_OneJob ==
    mgr.caller = "idle" => (mgr.jobs <= 1 /\ mgr.threads <= 1)

====
